---------------------------- MODULE Spec2Model ----------------------------
(***************************************************************************)
(* A model of daptin's data-access and authorization core                  *)
(* (src/server/id/id.go): the id <-> reference_id lookups and their cache, *)
(* the permission lookups behind IsUserActionAllowed, and the first-admin  *)
(* bootstrap (CanBecomeAdmin / BecomeAdmin).                               *)
(*                                                                         *)
(* The database is a map  table name -> (id -> row).  A read through       *)
(* dbResource.Connection sees the committed rows `db`; a read through a    *)
(* transaction handle sees the committed rows with the transaction's own   *)
(* statements applied on top (TxView).  The distributed cache is a map     *)
(* from textual key to a typed, TTL-carrying entry.                        *)
(***************************************************************************)
EXTENDS Integers, Sequences, FiniteSets, TLC

VARIABLES
    db,          \* committed database: table name -> (id -> row)
    cache,       \* the olric DMap: key -> [kind, v, ttl]
    OlricCache,  \* TRUE iff the package-level cache handle is non-nil
    last,        \* record of the last completed call
    pc,          \* per caller: position inside BecomeAdmin
    userId,      \* per caller: the userId argument of its BecomeAdmin call
    txlog,       \* per caller: statements executed on its open transaction
    result,      \* per caller: what its BecomeAdmin call returned ("none" while running)
    hist,        \* history of the bootstrap: what had happened when each call started
    frame,       \* per caller: the locals of its lookup in progress
    gate         \* inputs and result of the last AccessGate evaluation

vars == <<db, cache, OlricCache, last, pc, userId, txlog, result, hist, frame, gate>>

-----------------------------------------------------------------------------
(* Bounds of the model *)

\* ids 1..MaxId are looked up; rows beyond the seeded ones are absent
MaxId == 2

\* cache entries alive at the same time (the others have expired)
MaxEntries == 2

\* concurrent callers, each with its own transaction handle
NumCallers == 2

Callers == 1..NumCallers

-----------------------------------------------------------------------------
(* Table and column names *)

USER_ACCOUNT_TABLE_NAME == "user_account"

USER_ACCOUNT_LINK_TABLE == "user_account_user_account_id_has_usergroup_usergroup_id"

NoErr == "nil"

ErrNoRows == "sql: no rows in result set"

ErrKeyFound == "key found"

-----------------------------------------------------------------------------
(* Permission bits (package auth): bit k of the 21-bit mask *)

GuestPeek == 2^0
GuestRead == 2^1
GuestCreate == 2^2
GuestUpdate == 2^3
GuestDelete == 2^4
GuestExecute == 2^5
GuestRefer == 2^6
UserPeek == 2^7
UserRead == 2^8
UserCreate == 2^9
UserUpdate == 2^10
UserDelete == 2^11
UserExecute == 2^12
UserRefer == 2^13
GroupPeek == 2^14
GroupRead == 2^15
GroupCreate == 2^16
GroupUpdate == 2^17
GroupDelete == 2^18
GroupExecute == 2^19
GroupRefer == 2^20

UserCRUD == UserRead + UserCreate + UserUpdate + UserDelete

GroupCRUD == GroupRead + GroupCreate + GroupUpdate + GroupDelete

\* owner full + group read
DEFAULT_PERMISSION == UserPeek + UserCRUD + UserExecute + UserRefer + GroupRead

\* p & bit == bit, for a single-bit mask
HasBit(p, bit) == (p \div bit) % 2 = 1

\* p | bit, for a single-bit mask
SetBit(p, bit) == IF HasBit(p, bit) THEN p ELSE p + bit

\* p &^ bit, for a single-bit mask
ClearBit(p, bit) == IF HasBit(p, bit) THEN p - bit ELSE p

-----------------------------------------------------------------------------
(* The database *)

\* A row of any table.  user_account_id = 0 is SQL NULL.  In the join table
\* <T>_<T>_id_has_usergroup_usergroup_id the column <T>_id is object_id
\* (and is user_account_id itself when T is user_account).
Row(ref, owner, perm, name, dperm, wid, oid, gid) ==
    [reference_id |-> ref, user_account_id |-> owner, permission |-> perm,
     name |-> name, default_permission |-> dperm, world_id |-> wid,
     object_id |-> oid, usergroup_id |-> gid]

\* fmt.Sprintf("%s_%s_id_has_usergroup_usergroup_id", objType, objType)
GroupJoinTable(objType) == objType \o "_" \o objType \o "_id_has_usergroup_usergroup_id"

NoRows == [i \in {} |-> Row("", 0, 0, "", 0, 0, 0, 0)]

\* The seeded database: two users, two groups, the world rows of `blog`,
\* `page` and `blog_audit`, three actions (publish is declared on blog and on
\* page), one blog row, and the group memberships of world row 1 and action
\* row 1.  No user is a member of `administrators` yet.
SeedDb ==
    [t \in {"user_account", "usergroup", "world", "action", "blog",
            USER_ACCOUNT_LINK_TABLE, GroupJoinTable("world"), GroupJoinTable("action"),
            GroupJoinTable("blog")} |->
        CASE t = "user_account" ->
                (1 :> Row("u-1", 0, UserRead, "a@x", 0, 0, 0, 0))
             @@ (2 :> Row("u-2", 0, UserRead, "b@x", 0, 0, 0, 0))
          [] t = "usergroup" ->
                (1 :> Row("g-1", 0, GroupRead, "administrators", 0, 0, 0, 0))
             @@ (2 :> Row("g-2", 0, GroupRead, "users", 0, 0, 0, 0))
          [] t = "world" ->
                (1 :> Row("w-1", 1, UserRead + UserExecute, "blog", UserRead, 0, 0, 0))
             @@ (2 :> Row("w-2", 2, UserRead, "blog_audit", UserRead, 0, 0, 0))
             @@ (3 :> Row("w-3", 2, UserRead + UserExecute, "page", UserRead, 0, 0, 0))
          [] t = "action" ->
                (1 :> Row("a-1", 1, UserExecute, "publish", 0, 1, 0, 0))
             @@ (2 :> Row("a-2", 0, GuestPeek, "signin", 0, 1, 0, 0))
             @@ (3 :> Row("a-3", 2, UserExecute, "publish", 0, 3, 0, 0))
          [] t = "blog" ->
                (1 :> Row("b-1", 2, UserRead, "", 0, 0, 0, 0))
          [] t = GroupJoinTable("world") ->
                (1 :> Row("wg-1", 1, GroupExecute, "", 0, 0, 1, 2))
          [] t = GroupJoinTable("action") ->
                (1 :> Row("ag-1", 1, GroupExecute, "", 0, 0, 1, 2))
          [] OTHER -> NoRows]

Tables == DOMAIN SeedDb

\* crud.model.HasColumn(USER_ACCOUNT_ID_COLUMN)
HasOwnerColumn(t) == t \notin {"usergroup"}

-----------------------------------------------------------------------------
(* The cache: olric DMap Get / PutIfEx(..., IfNotFound) *)

NoCache == [k \in {} |-> [kind |-> "", v |-> 0, ttl |-> 0]]

\* the store behind a non-nil handle is unavailable: every Get misses and
\* every PutIfEx fails (no lookup key is the empty string)
Unavailable == ("" :> [kind |-> "unavailable", v |-> 0, ttl |-> 0])

ErrUnavailable == "olric: operation failed"

\* OlricCache.Get(key) returns a value and a nil error
CacheHit(c, k) == c # Unavailable /\ k \in DOMAIN c

\* PutIfEx(key, value, ttl, olric.IfNotFound): stores only when the key is absent
PutIfEx(c, k, kind, v, ttl) ==
    IF c = Unavailable \/ k \in DOMAIN c THEN c
    ELSE (k :> [kind |-> kind, v |-> v, ttl |-> ttl]) @@ c

\* the error PutIfEx returns
PutIfExErr(c, k) ==
    IF c = Unavailable THEN ErrUnavailable
    ELSE IF k \in DOMAIN c THEN ErrKeyFound ELSE NoErr

\* the entry is gone: its TTL elapsed or it was evicted
Evict(c, k) == [x \in DOMAIN c \ {k} |-> c[x]]


-----------------------------------------------------------------------------
(* IdentityResolver: id <-> reference_id *)

ErrPanic == "panic: interface conversion"

Min(S) == CHOOSE x \in S : \A y \in S : x <= y

\* ids of the rows of table t whose reference_id is ref
IdsByReference(view, t, ref) == {i \in DOMAIN view[t] : view[t][i].reference_id = ref}

\* fmt.Sprintf("itr-%v-%v", typeName, id)
ItrKey(typeName, id) == "itr-" \o typeName \o "-" \o ToString(id)

\* fmt.Sprintf("riti-%v-%v", typeName, referenceId)
RitiKey(typeName, referenceId) == "riti-" \o typeName \o "-" \o referenceId

\* SELECT reference_id FROM typeName WHERE id = ? ; row.Scan(&str)
ScanReferenceId(view, typeName, id) ==
    IF id \in DOMAIN view[typeName]
    THEN [val |-> view[typeName][id].reference_id, err |-> NoErr]
    ELSE [val |-> "", err |-> ErrNoRows]

\* SELECT id FROM typeName WHERE reference_id = ? ; Scan(&id)
ScanId(view, typeName, referenceId) ==
    IF IdsByReference(view, typeName, referenceId) # {}
    THEN [val |-> Min(IdsByReference(view, typeName, referenceId)), err |-> NoErr]
    ELSE [val |-> 0, err |-> ErrNoRows]

\* A variant of GetIdToReferenceId that reads the row next to the one asked for.
GetIdToReferenceId_WrongRow(h, c, view, typeName, id) ==
    LET k == ItrKey(typeName, id)
        r == ScanReferenceId(view, typeName, id + 1)
    IN  IF h /\ CacheHit(c, k)
        THEN [val |-> c[k].v, err |-> NoErr, cache |-> c, hit |-> TRUE]
        ELSE [val |-> r.val, err |-> r.err,
              cache |-> IF h THEN PutIfEx(c, k, "string", r.val, 60) ELSE c,
              hit |-> FALSE]

\* GetIdToReferenceId(typeName, id) (string, error), reading through
\* dbResource.Connection.  The scanned string is stored whatever the scan's
\* error was.
GetIdToReferenceId(h, c, view, typeName, id) ==
    LET k == ItrKey(typeName, id)
        r == ScanReferenceId(view, typeName, id)
    IN  IF h /\ CacheHit(c, k)
        THEN IF c[k].kind = "string"
             THEN [val |-> c[k].v, err |-> NoErr, cache |-> c, hit |-> TRUE]
             ELSE [val |-> "", err |-> ErrPanic, cache |-> c, hit |-> TRUE]
        ELSE [val |-> r.val, err |-> r.err,
              cache |-> IF h THEN PutIfEx(c, k, "string", r.val, 60) ELSE c,
              hit |-> FALSE]

\* GetIdToReferenceIdWithTransaction(typeName, id, transaction): the error
\* returned after a miss is PutIfEx's (err = OlricCache.PutIfEx(...)).
GetIdToReferenceIdWithTransaction(h, c, view, typeName, id) ==
    LET k == ItrKey(typeName, id)
        r == ScanReferenceId(view, typeName, id)
    IN  IF h /\ CacheHit(c, k)
        THEN IF c[k].kind = "string"
             THEN [val |-> c[k].v, err |-> NoErr, cache |-> c, hit |-> TRUE]
             ELSE [val |-> "", err |-> ErrPanic, cache |-> c, hit |-> TRUE]
        ELSE [val |-> r.val,
              err |-> IF h THEN PutIfExErr(c, k) ELSE r.err,
              cache |-> IF h THEN PutIfEx(c, k, "string", r.val, 300) ELSE c,
              hit |-> FALSE]

\* A variant of GetReferenceIdToId that answers a hit with the id before the
\* cached one.
GetReferenceIdToId_OffByOne(h, c, view, typeName, referenceId) ==
    LET k == RitiKey(typeName, referenceId)
        r == ScanId(view, typeName, referenceId)
    IN  IF h /\ CacheHit(c, k)
        THEN [val |-> c[k].v - 1, err |-> NoErr, cache |-> c, hit |-> TRUE]
        ELSE [val |-> r.val, err |-> r.err,
              cache |-> IF h THEN PutIfEx(c, k, "int64", r.val, 300) ELSE c,
              hit |-> FALSE]

\* GetReferenceIdToId(typeName, referenceId) (int64, error).  The scanned id
\* (0 when no row matched) is stored whatever the scan's error was.
GetReferenceIdToId(h, c, view, typeName, referenceId) ==
    LET k == RitiKey(typeName, referenceId)
        r == ScanId(view, typeName, referenceId)
    IN  IF h /\ CacheHit(c, k)
        THEN IF c[k].kind = "int64"
             THEN [val |-> c[k].v, err |-> NoErr, cache |-> c, hit |-> TRUE]
             ELSE [val |-> 0, err |-> ErrPanic, cache |-> c, hit |-> TRUE]
        ELSE [val |-> r.val, err |-> r.err,
              cache |-> IF h THEN PutIfEx(c, k, "int64", r.val, 300) ELSE c,
              hit |-> FALSE]

\* GetReferenceIdToIdWithTransaction(typeName, referenceId, updateTransaction).
\* The hit test `cachedValue != 0` compares an interface holding an int64 with
\* the int constant 0, which differ in dynamic type: it never rejects a value.
\* The id is stored only when the scan succeeded, for one hour.
GetReferenceIdToIdWithTransaction(h, c, view, typeName, referenceId) ==
    LET k == RitiKey(typeName, referenceId)
        r == ScanId(view, typeName, referenceId)
    IN  IF h /\ CacheHit(c, k)
        THEN IF c[k].kind = "int64"
             THEN [val |-> c[k].v, err |-> NoErr, cache |-> c, hit |-> TRUE]
             ELSE [val |-> 0, err |-> ErrPanic, cache |-> c, hit |-> TRUE]
        ELSE [val |-> r.val, err |-> r.err,
              cache |-> IF h /\ r.err = NoErr
                        THEN PutIfEx(c, k, "int64", r.val, 3600) ELSE c,
              hit |-> FALSE]

-----------------------------------------------------------------------------
(* Transactions: the statements BecomeAdmin executes, and what a reader sees *)

Max(S) == CHOOSE x \in S : \A y \in S : x >= y

NextId(rows) == IF DOMAIN rows = {} THEN 1 ELSE Max(DOMAIN rows) + 1

\* table_name LIKE '%_audit' over the seeded table names
LikeAudit(name) == name \in {"blog_audit"}

Stmt(op, table, user, group) == [op |-> op, table |-> table, user |-> user, group |-> group]

\* the rows of table t after statement s
ApplyStmtTo(s, t, rows) ==
    CASE s.op = "own" /\ s.table = t ->
            \* UPDATE t SET user_account_id = ?, permission = DEFAULT_PERMISSION
            [i \in DOMAIN rows |->
                [rows[i] EXCEPT !.user_account_id = s.user, !.permission = DEFAULT_PERMISSION]]
      [] s.op = "member" /\ t = USER_ACCOUNT_LINK_TABLE ->
            \* INSERT INTO link (user_account_id, usergroup_id, permission, reference_id)
            (NextId(rows) :> Row("m-" \o ToString(NextId(rows)), s.user, DEFAULT_PERMISSION,
                                 "", 0, 0, s.user, s.group)) @@ rows
      [] s.op = "world" /\ t = "world" ->
            \* UPDATE world SET permission, default_permission WHERE table_name NOT LIKE '%_audit'
            [i \in DOMAIN rows |->
                IF LikeAudit(rows[i].name) THEN rows[i]
                ELSE [rows[i] EXCEPT !.permission = DEFAULT_PERMISSION,
                                     !.default_permission = DEFAULT_PERMISSION]]
      [] s.op = "audit" /\ t = "world" ->
            \* UPDATE world SET ... WHERE table_name LIKE '%_audit'
            [i \in DOMAIN rows |->
                IF LikeAudit(rows[i].name)
                THEN [rows[i] EXCEPT !.permission = UserCreate + GroupCreate,
                                     !.default_permission = UserRead + GroupRead]
                ELSE rows[i]]
      [] s.op = "action" /\ t = "action" ->
            \* UPDATE action SET permission = UserRead|UserExecute|GroupCRUD|GroupExecute|GroupRefer
            [i \in DOMAIN rows |->
                [rows[i] EXCEPT !.permission =
                    UserRead + UserExecute + GroupCRUD + GroupExecute + GroupRefer]]
      [] s.op = "signin" /\ t = "action" ->
            \* UPDATE action SET permission = ... WHERE action_name = 'signin'
            [i \in DOMAIN rows |->
                IF rows[i].name = "signin"
                THEN [rows[i] EXCEPT !.permission =
                        GuestPeek + GuestExecute + UserRead + UserExecute + GroupRead + GroupExecute]
                ELSE rows[i]]
      [] OTHER -> rows

ApplyStmt(s, d) == [t \in DOMAIN d |-> ApplyStmtTo(s, t, d[t])]

RECURSIVE ApplyLog(_, _)
ApplyLog(log, d) ==
    IF log = <<>> THEN d ELSE ApplyLog(Tail(log), ApplyStmt(Head(log), d))

\* what a statement run on caller p's transaction handle reads: the committed
\* rows with the transaction's own statements applied
TxView(p) == ApplyLog(txlog[p], db)

-----------------------------------------------------------------------------
(* AccessGate (package auth): PermissionInstance and its capability checks *)

PermissionInstance(user, groups, perm) ==
    [UserId |-> user, UserGroupId |-> groups, Permission |-> perm]

GroupPermission(g, o, r, perm) ==
    [GroupReferenceId |-> g, ObjectReferenceId |-> o, RelationReferenceId |-> r,
     Permission |-> perm]

\* var perm PermissionInstance
EmptyPermission == PermissionInstance("", <<>>, 0)

Caps == {"Peek", "Read", "Create", "Update", "Delete", "Execute", "Refer"}

CapIndex(cap) ==
    CASE cap = "Peek" -> 0 [] cap = "Read" -> 1 [] cap = "Create" -> 2 [] cap = "Update" -> 3
      [] cap = "Delete" -> 4 [] cap = "Execute" -> 5 [] cap = "Refer" -> 6

GuestBit(cap) == 2^CapIndex(cap)

UserBit(cap) == 2^(7 + CapIndex(cap))

GroupBit(cap) == 2^(14 + CapIndex(cap))

\* A variant of CheckBit whose owner clause does not look at the owner bit.
CheckBit_OwnerAlways(p, user, ugroups, cap) ==
    \/ user # "" /\ p.UserId = user
    \/ \E k \in DOMAIN p.UserGroupId :
            /\ p.UserGroupId[k].GroupReferenceId \in ugroups
            /\ HasBit(p.UserGroupId[k].Permission, GroupBit(cap))
    \/ HasBit(p.Permission, GuestBit(cap))

\* allow(p, caller, cap): the caller is the owner and the owner bit is set, or
\* the caller is in one of p's groups whose bits carry the group bit, or the
\* guest bit is set
CheckBit(p, user, ugroups, cap) ==
    \/ user # "" /\ p.UserId = user /\ HasBit(p.Permission, UserBit(cap))
    \/ \E k \in DOMAIN p.UserGroupId :
            /\ p.UserGroupId[k].GroupReferenceId \in ugroups
            /\ HasBit(p.UserGroupId[k].Permission, GroupBit(cap))
    \/ HasBit(p.Permission, GuestBit(cap))

\* PermissionInstance.CanExecute(userReferenceId, userGroups)
CanExecute(p, user, ugroups) == CheckBit(p, user, ugroups, "Execute")

-----------------------------------------------------------------------------
(* PermissionResolver *)

RECURSIVE SortedSeq(_)
SortedSeq(S) == IF S = {} THEN <<>> ELSE <<Min(S)>> \o SortedSeq(S \ {Min(S)})

\* the text a WHERE colName = ? compares with, for the columns the lookups use
ColumnText(row, i, colName) ==
    CASE colName \in {"table_name", "action_name", "name"} -> row.name
      [] colName = "reference_id" -> row.reference_id
      [] colName = "id" -> ToString(i)
      [] OTHER -> ""

\* the value of column <objType>_id of a row of the join table
JoinObjectId(row, objType) ==
    IF objType = USER_ACCOUNT_TABLE_NAME THEN row.user_account_id ELSE row.object_id

\* cruds["usergroup"].model.GetDefaultPermission()
UsergroupDefaultPermission == DEFAULT_PERMISSION

\* SELECT ug.reference_id, uug.reference_id, uug.permission FROM usergroup ug
\* JOIN <T>_<T>_id_has_usergroup_usergroup_id uug ON uug.usergroup_id = ug.id
\* WHERE uug.<T>_id = ?
GroupsQuery(view, objType, objectId, refId) ==
    IF GroupJoinTable(objType) \notin DOMAIN view THEN <<>>
    ELSE LET uug == view[GroupJoinTable(objType)]
             ids == SortedSeq({j \in DOMAIN uug :
                        /\ JoinObjectId(uug[j], objType) = objectId
                        /\ uug[j].usergroup_id \in DOMAIN view["usergroup"]})
         IN  [k \in 1..Len(ids) |->
                GroupPermission(view["usergroup"][uug[ids[k]].usergroup_id].reference_id,
                                refId, uug[ids[k]].reference_id, uug[ids[k]].permission)]

\* GetObjectGroupsByObjectId(objType, objectId)
GetObjectGroupsByObjectId(h, c, view, objType, objectId) ==
    LET r == GetIdToReferenceId(h, c, view, objType, objectId)
    IN  IF r.err = ErrPanic
        THEN [val |-> <<>>, err |-> ErrPanic, cache |-> r.cache]
        ELSE IF objType = "usergroup"
        THEN [val |-> IF r.err # NoErr THEN <<>>
                      ELSE <<GroupPermission(r.val, r.val, r.val, UsergroupDefaultPermission)>>,
              cache |-> r.cache]
        ELSE [val |-> GroupsQuery(view, objType, objectId, r.val), cache |-> r.cache]

\* fmt.Sprintf("object-groups-%v-%v", objectType, objectId)
ObjectGroupsKey(objectType, objectId) ==
    "object-groups-" \o objectType \o "-" \o ToString(objectId)

\* GetObjectGroupsByObjectIdWithTransaction(objectType, objectId, transaction)
GetObjectGroupsByObjectIdWithTransaction(h, c, view, objectType, objectId) ==
    LET k == ObjectGroupsKey(objectType, objectId)
        r == GetIdToReferenceIdWithTransaction(h, c, view, objectType, objectId)
        s == GroupsQuery(view, objectType, objectId, r.val)
    IN  IF h /\ CacheHit(c, k)
        THEN IF c[k].kind = "[]GroupPermission"
             THEN [val |-> c[k].v, cache |-> c]
             ELSE [val |-> <<>>, err |-> ErrPanic, cache |-> c]
        ELSE IF r.err = ErrPanic
        THEN [val |-> <<>>, err |-> ErrPanic, cache |-> r.cache]
        ELSE IF objectType = "usergroup"
        THEN [val |-> IF r.err # NoErr THEN <<>>
                      ELSE <<GroupPermission(r.val, r.val, r.val, DEFAULT_PERMISSION)>>,
              cache |-> r.cache]
        ELSE [val |-> s,
              cache |-> IF h THEN PutIfEx(r.cache, k, "[]GroupPermission", s, 30) ELSE r.cache]

\* ids of the rows of objectType with colName = colValue; none when the
\* statement cannot be prepared (no such table, no user_account_id column)
IdsWhere(view, objectType, colName, colValue) ==
    IF objectType \notin DOMAIN view \/ ~HasOwnerColumn(objectType) THEN {}
    ELSE {i \in DOMAIN view[objectType] :
            ColumnText(view[objectType][i], i, colName) = colValue}

\* fmt.Sprintf("%s_%s_%s", objectType, colName, colValue)
PermissionKey(objectType, colName, colValue) ==
    objectType \o "_" \o colName \o "_" \o colValue

\* fmt.Sprintf("object-permission-%s_%s_%s", objectType, colName, colValue)
PermissionKeyWithTransaction(objectType, colName, colValue) ==
    "object-permission-" \o objectType \o "_" \o colName \o "_" \o colValue

NoOwner(c) == [val |-> "", err |-> "no owner", cache |-> c, hit |-> FALSE]

\* A variant of the lookup that reads default_permission where permission is meant.
GetObjectPermissionByWhereClause_DefaultPermission(h, c, view, objectType, colName, colValue) ==
    LET key == PermissionKey(objectType, colName, colValue)
        ids == IdsWhere(view, objectType, colName, colValue)
    IN  IF h /\ CacheHit(c, key)
        THEN [val |-> c[key].v, cache |-> c, hit |-> TRUE]
        ELSE IF ids = {}
        THEN [val |-> EmptyPermission, cache |-> c, hit |-> FALSE]
        ELSE LET id == Min(ids)
                 m == view[objectType][id]
                 u == IF m.user_account_id # 0
                      THEN GetIdToReferenceId(h, c, view, USER_ACCOUNT_TABLE_NAME, m.user_account_id)
                      ELSE NoOwner(c)
                 g == GetObjectGroupsByObjectId(h, u.cache, view, objectType, id)
                 perm == PermissionInstance(IF u.err = NoErr THEN u.val ELSE "", g.val,
                                            m.default_permission)
             IN  [val |-> perm,
                  cache |-> IF h THEN PutIfEx(g.cache, key, "PermissionInstance", perm, 10)
                            ELSE g.cache,
                  hit |-> FALSE]

\* GetObjectPermissionByWhereClause(objectType, colName, colValue), with h the
\* cache handle after the lazy initialisation at its top.  QueryRowx takes the
\* first matching row; no row, or a statement that cannot be prepared, returns
\* the zero PermissionInstance without caching it.
GetObjectPermissionByWhereClause(h, c, view, objectType, colName, colValue) ==
    LET key == PermissionKey(objectType, colName, colValue)
        ids == IdsWhere(view, objectType, colName, colValue)
    IN  IF h /\ CacheHit(c, key)
        THEN IF c[key].kind = "PermissionInstance"
             THEN [val |-> c[key].v, cache |-> c, hit |-> TRUE]
             ELSE [val |-> EmptyPermission, err |-> ErrPanic, cache |-> c, hit |-> TRUE]
        ELSE IF ids = {}
        THEN [val |-> EmptyPermission, cache |-> c, hit |-> FALSE]
        ELSE LET id == Min(ids)
                 m == view[objectType][id]
                 u == IF m.user_account_id # 0
                      THEN GetIdToReferenceId(h, c, view, USER_ACCOUNT_TABLE_NAME, m.user_account_id)
                      ELSE NoOwner(c)
                 g == GetObjectGroupsByObjectId(h, u.cache, view, objectType, id)
                 perm == PermissionInstance(IF u.err = NoErr THEN u.val ELSE "", g.val,
                                            m.permission)
             IN  IF u.err = ErrPanic \/ "err" \in DOMAIN g
                 THEN [val |-> EmptyPermission, err |-> ErrPanic, cache |-> g.cache,
                       hit |-> FALSE]
                 ELSE
                 [val |-> perm,
                  cache |-> IF h THEN PutIfEx(g.cache, key, "PermissionInstance", perm, 10)
                            ELSE g.cache,
                  hit |-> FALSE]

\* GetObjectPermissionByWhereClauseWithTransaction(objectType, colName, colValue, transaction)
GetObjectPermissionByWhereClauseWithTransaction(h, c, view, objectType, colName, colValue) ==
    LET key == PermissionKeyWithTransaction(objectType, colName, colValue)
        ids == IdsWhere(view, objectType, colName, colValue)
    IN  IF h /\ CacheHit(c, key)
        THEN IF c[key].kind = "PermissionInstance"
             THEN [val |-> c[key].v, cache |-> c, hit |-> TRUE]
             ELSE [val |-> EmptyPermission, err |-> ErrPanic, cache |-> c, hit |-> TRUE]
        ELSE IF ids = {}
        THEN [val |-> EmptyPermission, cache |-> c, hit |-> FALSE]
        ELSE LET id == Min(ids)
                 m == view[objectType][id]
                 u == IF m.user_account_id # 0
                      THEN GetIdToReferenceIdWithTransaction(h, c, view, USER_ACCOUNT_TABLE_NAME,
                                                             m.user_account_id)
                      ELSE NoOwner(c)
                 g == GetObjectGroupsByObjectIdWithTransaction(h, u.cache, view, objectType, id)
                 perm == PermissionInstance(IF u.err = NoErr THEN u.val ELSE "", g.val,
                                            m.permission)
             IN  IF u.err = ErrPanic \/ "err" \in DOMAIN g
                 THEN [val |-> EmptyPermission, err |-> ErrPanic, cache |-> g.cache,
                       hit |-> FALSE]
                 ELSE
                 [val |-> perm,
                  cache |-> IF h THEN PutIfEx(g.cache, key, "PermissionInstance", perm, 600)
                            ELSE g.cache,
                  hit |-> FALSE]

\* A variant of IsUserActionAllowed that is satisfied by either permission.
IsUserActionAllowed_Either(h, c, view, userReferenceId, userGroups, typeName, actionName) ==
    LET permission == GetObjectPermissionByWhereClause(h, c, view, "world", "table_name", typeName)
        actionPermission == GetObjectPermissionByWhereClause(h, permission.cache, view,
                                "action", "action_name", actionName)
    IN  [val |-> \/ CanExecute(permission.val, userReferenceId, userGroups)
                 \/ CanExecute(actionPermission.val, userReferenceId, userGroups),
         permission |-> permission.val, actionPermission |-> actionPermission.val,
         hitType |-> permission.hit, hitAction |-> actionPermission.hit,
         cache |-> actionPermission.cache]

\* IsUserActionAllowed(userReferenceId, userGroups, typeName, actionName)
IsUserActionAllowed(h, c, view, userReferenceId, userGroups, typeName, actionName) ==
    LET permission == GetObjectPermissionByWhereClause(h, c, view, "world", "table_name", typeName)
        actionPermission == GetObjectPermissionByWhereClause(h, permission.cache, view,
                                "action", "action_name", actionName)
    IN  [val |-> /\ CanExecute(permission.val, userReferenceId, userGroups)
                 /\ CanExecute(actionPermission.val, userReferenceId, userGroups),
         permission |-> permission.val, actionPermission |-> actionPermission.val,
         hitType |-> permission.hit, hitAction |-> actionPermission.hit,
         cache |-> actionPermission.cache]

\* IsUserActionAllowedWithTransaction(userReferenceId, userGroups, typeName, actionName, transaction)
IsUserActionAllowedWithTransaction(h, c, view, userReferenceId, userGroups, typeName, actionName) ==
    LET permission == GetObjectPermissionByWhereClauseWithTransaction(h, c, view,
                                "world", "table_name", typeName)
        actionPermission == GetObjectPermissionByWhereClauseWithTransaction(h, permission.cache,
                                view, "action", "action_name", actionName)
    IN  [val |-> /\ CanExecute(permission.val, userReferenceId, userGroups)
                 /\ CanExecute(actionPermission.val, userReferenceId, userGroups),
         permission |-> permission.val, actionPermission |-> actionPermission.val,
         hitType |-> permission.hit, hitAction |-> actionPermission.hit,
         cache |-> actionPermission.cache]

-----------------------------------------------------------------------------
(* RowLoader and ActionRegistry lookups: id -> object, action by name *)

\* the nil map
NilObject == [nil |-> TRUE]

\* a foreign key column that ResultToArrayOfMap could not resolve keeps the
\* integer it was scanned with
RawKey(id) == "id:" \o ToString(id)

\* the row map ResultToArrayOfMap builds: the columns, with the owner column
\* replaced by the owner's reference id
ObjectMap(id, row, owner) ==
    [id |-> id, reference_id |-> row.reference_id, permission |-> row.permission,
     name |-> row.name, user_account_id |-> owner]

\* fmt.Sprintf("ito-%v-%v", typeName, id)
ItoKey(typeName, id) == "ito-" \o typeName \o "-" \o ToString(id)

NoForeignKey(c) == [val |-> "", err |-> NoErr, cache |-> c, hit |-> FALSE]

\* GetIdToObject(typeName, id): no row returns (nil, nil), err being the
\* result of row.Close()
GetIdToObject(h, c, view, typeName, id) ==
    LET key == ItoKey(typeName, id)
    IN  IF h /\ CacheHit(c, key)
        THEN IF c[key].kind = "map"
             THEN [val |-> c[key].v, err |-> NoErr, cache |-> c, hit |-> TRUE]
             ELSE [val |-> NilObject, err |-> ErrPanic, cache |-> c, hit |-> TRUE]
        ELSE IF id \notin DOMAIN view[typeName]
        THEN [val |-> NilObject, err |-> NoErr, cache |-> c, hit |-> FALSE]
        ELSE LET row == view[typeName][id]
                 u == IF row.user_account_id # 0
                      THEN GetIdToReferenceId(h, c, view, USER_ACCOUNT_TABLE_NAME,
                                              row.user_account_id)
                      ELSE NoForeignKey(c)
                 m == ObjectMap(id, row, IF u.err = NoErr THEN u.val
                                         ELSE RawKey(row.user_account_id))
             IN  [val |-> IF u.err = ErrPanic THEN NilObject ELSE m,
                  err |-> IF u.err = ErrPanic THEN ErrPanic ELSE NoErr,
                  cache |-> IF h /\ u.err # ErrPanic THEN PutIfEx(u.cache, key, "map", m, 60)
                            ELSE u.cache,
                  hit |-> FALSE]

ErrNoSuchItem == "no such item"

\* GetIdToObjectWithTransaction(typeName, id, transaction)
GetIdToObjectWithTransaction(h, c, view, typeName, id) ==
    LET key == ItoKey(typeName, id)
    IN  IF h /\ CacheHit(c, key)
        THEN IF c[key].kind = "map"
             THEN [val |-> c[key].v, err |-> NoErr, cache |-> c, hit |-> TRUE]
             ELSE [val |-> NilObject, err |-> ErrPanic, cache |-> c, hit |-> TRUE]
        ELSE IF id \notin DOMAIN view[typeName]
        THEN [val |-> NilObject, err |-> ErrNoSuchItem, cache |-> c, hit |-> FALSE]
        ELSE LET row == view[typeName][id]
                 u == IF row.user_account_id # 0
                      THEN GetIdToReferenceIdWithTransaction(h, c, view, USER_ACCOUNT_TABLE_NAME,
                                                             row.user_account_id)
                      ELSE NoForeignKey(c)
                 m == ObjectMap(id, row, IF u.err = NoErr THEN u.val
                                         ELSE RawKey(row.user_account_id))
             IN  [val |-> IF u.err = ErrPanic THEN NilObject ELSE m,
                  err |-> IF u.err = ErrPanic THEN ErrPanic ELSE NoErr,
                  cache |-> IF h /\ u.err # ErrPanic THEN PutIfEx(u.cache, key, "map", m, 60)
                            ELSE u.cache,
                  hit |-> FALSE]

\* the Action GetActionByName returns
Action(name, referenceId, onType) ==
    [Name |-> name, ReferenceId |-> referenceId, OnType |-> onType]

\* var action Action
ZeroAction == Action("", "", "")

\* fmt.Sprintf("action-%v-%v", typeName, actionName)
ActionKey(typeName, actionName) == "action-" \o typeName \o "-" \o actionName

\* ... FROM action a JOIN world w ON w.id = a.world_id
\*     WHERE w.table_name = typeName AND a.action_name = actionName
ActionIds(view, typeName, actionName) ==
    {i \in DOMAIN view["action"] :
        /\ view["action"][i].name = actionName
        /\ view["action"][i].world_id \in DOMAIN view["world"]
        /\ view["world"][view["action"][i].world_id].name = typeName}

\* GetActionByName(typeName, actionName, transaction)
GetActionByName(h, c, view, typeName, actionName) ==
    LET key == ActionKey(typeName, actionName)
        ids == ActionIds(view, typeName, actionName)
    IN  IF h /\ CacheHit(c, key)
        THEN IF c[key].kind = "ActionRow"
             THEN [val |-> c[key].v, err |-> NoErr, cache |-> c, hit |-> TRUE]
             ELSE [val |-> ZeroAction, err |-> ErrPanic, cache |-> c, hit |-> TRUE]
        ELSE IF ids = {}
        THEN [val |-> ZeroAction, err |-> ErrNoRows, cache |-> c, hit |-> FALSE]
        ELSE LET a == Action(actionName, view["action"][Min(ids)].reference_id, typeName)
             IN  [val |-> a, err |-> NoErr,
                  cache |-> IF h THEN PutIfEx(c, key, "ActionRow", a, 60) ELSE c,
                  hit |-> FALSE]

-----------------------------------------------------------------------------
(* Initial values shared by the specifications *)

NoCall == [op |-> "none", type |-> "", id |-> 0, ref |-> "", sval |-> "", ival |-> 0,
           err |-> NoErr, hit |-> FALSE]

LookupTypes == {"user_account", "blog"}

LookupIds == 1..MaxId

\* the references of the table's rows and one that no row carries
LookupRefs(t) == {SeedDb[t][i].reference_id : i \in DOMAIN SeedDb[t]} \cup {"r-0"}

NoGate == [p |-> EmptyPermission, user |-> "", ugroups |-> {}, cap |-> "Peek", done |-> FALSE,
           allowed |-> FALSE]

\* what had happened when a BecomeAdmin call started
NoStart == [afterTrue |-> FALSE, afterStep1 |-> FALSE, afterMember |-> FALSE, admin |-> FALSE,
            during |-> {}]

NoHist == [returnedTrue |-> FALSE, step1 |-> FALSE, member |-> FALSE,
           at |-> [p \in Callers |-> NoStart]]

\* no lookup in progress
NoFrame == [fn |-> "", type |-> "", id |-> 0, str |-> "", err |-> NoErr]

InitBase ==
    /\ db = SeedDb
    /\ cache = NoCache
    /\ last = NoCall
    /\ pc = [p \in Callers |-> "idle"]
    /\ userId = [p \in Callers |-> 0]
    /\ txlog = [p \in Callers |-> <<>>]
    /\ result = [p \in Callers |-> "none"]
    /\ hist = NoHist
    /\ frame = [p \in Callers |-> NoFrame]

adminVars == <<pc, userId, txlog, result, hist, frame>>

-----------------------------------------------------------------------------
(* Specification SpecId: id <-> reference lookups against a fixed database *)

IdCall(op, t, i, ref, r) ==
    [op |-> op, type |-> t, id |-> i, ref |-> ref,
     sval |-> IF op \in {"GetIdToReferenceId", "GetIdToReferenceIdWithTransaction"} THEN r.val ELSE "",
     ival |-> IF op \in {"GetIdToReferenceId", "GetIdToReferenceIdWithTransaction"} THEN 0 ELSE r.val,
     err |-> r.err, hit |-> r.hit]

CallGetIdToReferenceId(t, i) ==
    LET r == GetIdToReferenceId(OlricCache, cache, db, t, i)
    IN  /\ Cardinality(DOMAIN r.cache) <= MaxEntries
        /\ cache' = r.cache
        /\ last' = IdCall("GetIdToReferenceId", t, i, "", r)
        /\ UNCHANGED <<db, OlricCache, adminVars, gate>>

CallGetIdToReferenceIdWithTransaction(p, t, i) ==
    LET r == GetIdToReferenceIdWithTransaction(OlricCache, cache, TxView(p), t, i)
    IN  /\ Cardinality(DOMAIN r.cache) <= MaxEntries
        /\ cache' = r.cache
        /\ last' = IdCall("GetIdToReferenceIdWithTransaction", t, i, "", r)
        /\ UNCHANGED <<db, OlricCache, adminVars, gate>>

CallGetReferenceIdToId(t, ref) ==
    LET r == GetReferenceIdToId(OlricCache, cache, db, t, ref)
    IN  /\ Cardinality(DOMAIN r.cache) <= MaxEntries
        /\ cache' = r.cache
        /\ last' = IdCall("GetReferenceIdToId", t, 0, ref, r)
        /\ UNCHANGED <<db, OlricCache, adminVars, gate>>

CallGetReferenceIdToIdWithTransaction(p, t, ref) ==
    LET r == GetReferenceIdToIdWithTransaction(OlricCache, cache, TxView(p), t, ref)
    IN  /\ Cardinality(DOMAIN r.cache) <= MaxEntries
        /\ cache' = r.cache
        /\ last' = IdCall("GetReferenceIdToIdWithTransaction", t, 0, ref, r)
        /\ UNCHANGED <<db, OlricCache, adminVars, gate>>

\* an entry's TTL elapses, or the store evicts it
Expire(k) ==
    /\ k \in DOMAIN cache
    /\ cache' = Evict(cache, k)
    /\ UNCHANGED <<db, OlricCache, last, adminVars, gate>>

InitId ==
    /\ InitBase
    /\ OlricCache \in BOOLEAN
    /\ gate = NoGate

NextIdStep ==
    \/ \E t \in LookupTypes, i \in LookupIds : CallGetIdToReferenceId(t, i)
    \/ \E p \in Callers, t \in LookupTypes, i \in LookupIds :
            CallGetIdToReferenceIdWithTransaction(p, t, i)
    \/ \E t \in LookupTypes : \E ref \in LookupRefs(t) : CallGetReferenceIdToId(t, ref)
    \/ \E p \in Callers, t \in LookupTypes : \E ref \in LookupRefs(t) :
            CallGetReferenceIdToIdWithTransaction(p, t, ref)
    \/ \E k \in DOMAIN cache : Expire(k)

SpecId == InitId /\ [][NextIdStep]_vars

-----------------------------------------------------------------------------
(* Specification SpecPerm: IsUserActionAllowed while permissions are edited *)

\* callers: the owner of world row 1 and action row 1, and another user
PermUsers == {"u-1", "u-2"}

\* the caller's groups
PermGroups == {{}, {"g-2"}}

PermTypes == {"blog"}

PermActions == {"publish"}

\* the permission values an edit writes
PermChoices == {0, UserExecute}

AllowedCall(op, user, ugroups, t, a, r) ==
    [op |-> op, user |-> user, groups |-> ugroups, type |-> t, action |-> a, val |-> r.val,
     permission |-> r.permission, actionPermission |-> r.actionPermission,
     hitType |-> r.hitType, hitAction |-> r.hitAction]

\* IsUserActionAllowed, from the lazy initialisation of the cache handle
\* (NewDMap may return nil and an error, which is dropped) to its return
CallIsUserActionAllowed(user, ugroups, t, a) ==
    \E up \in BOOLEAN :
        LET h == OlricCache \/ up
            r == IsUserActionAllowed(h, cache, db, user, ugroups, t, a)
        IN  /\ OlricCache' = h
            /\ cache' = r.cache
            /\ last' = AllowedCall("IsUserActionAllowed", user, ugroups, t, a, r)
            /\ UNCHANGED <<db, adminVars, gate>>

CallIsUserActionAllowedWithTransaction(p, user, ugroups, t, a) ==
    \E up \in BOOLEAN :
        LET h == OlricCache \/ up
            r == IsUserActionAllowedWithTransaction(h, cache, TxView(p), user, ugroups, t, a)
        IN  /\ OlricCache' = h
            /\ cache' = r.cache
            /\ last' = AllowedCall("IsUserActionAllowedWithTransaction", user, ugroups, t, a, r)
            /\ UNCHANGED <<db, adminVars, gate>>

\* a committed edit of one row's permission column (the update of the action
\* or world row made through the API)
SetPermission(t, i, perm) ==
    /\ db[t][i].permission # perm
    /\ db' = [db EXCEPT ![t][i].permission = perm]
    /\ last' = [op |-> "SetPermission", type |-> t, id |-> i, val |-> perm]
    /\ UNCHANGED <<cache, OlricCache, adminVars, gate>>

\* d seconds pass without a call: every entry stored with a time-to-live of
\* at most d seconds has expired
Elapse(d) ==
    /\ \E k \in DOMAIN cache : cache[k].ttl <= d
    /\ cache' = [k \in {x \in DOMAIN cache : cache[x].ttl > d} |-> cache[k]]
    /\ UNCHANGED <<db, OlricCache, last, adminVars, gate>>

InitPerm ==
    /\ InitBase
    /\ OlricCache = FALSE
    /\ gate = NoGate

NextPerm ==
    \/ \E user \in PermUsers, g \in PermGroups, t \in PermTypes, a \in PermActions :
            CallIsUserActionAllowed(user, g, t, a)
    \/ \E user \in PermUsers, g \in PermGroups, t \in PermTypes, a \in PermActions :
            CallIsUserActionAllowedWithTransaction(1, user, g, t, a)
    \/ \E t \in {"world", "action"}, perm \in PermChoices : SetPermission(t, 1, perm)
    \/ \E d \in {cache[k].ttl : k \in DOMAIN cache} : Elapse(d)

SpecPerm == InitPerm /\ [][NextPerm]_vars

-----------------------------------------------------------------------------
(* SpecOnType: IsUserActionAllowed for an action name that two types declare,
   while the permission of either action row is edited; no entry expires *)

OnTypeUsers == {"u-2"}

OnTypes == {"blog", "page"}

\* the action rows named publish: row 1 is declared on blog, row 3 on page
PublishRows == {i \in DOMAIN SeedDb["action"] : SeedDb["action"][i].name = "publish"}

OnTypeChoices == {0, GuestExecute}

InitOnType ==
    /\ InitBase
    /\ OlricCache = FALSE
    /\ gate = NoGate

NextOnType ==
    \/ \E user \in OnTypeUsers, t \in OnTypes : CallIsUserActionAllowed(user, {}, t, "publish")
    \/ \E user \in OnTypeUsers, t \in OnTypes :
            CallIsUserActionAllowedWithTransaction(1, user, {}, t, "publish")
    \/ \E i \in PublishRows, perm \in OnTypeChoices : SetPermission("action", i, perm)

SpecOnType == InitOnType /\ [][NextOnType]_vars

-----------------------------------------------------------------------------
(* Specification SpecGate: the AccessGate predicate over bounded inputs *)

\* permission masks: none, the default, and each single bit of Read and Execute
GateMasks == {0, DEFAULT_PERMISSION, GuestRead, UserRead, GroupRead,
              GuestExecute, UserExecute, GroupExecute}

GateOwners == {"", "u-1"}

GateUsers == {"", "u-1", "u-2"}

GateGroupBits == {0, GroupRead, GroupExecute}

\* the group entries of p: none, or one entry of group g-1
GateGroups == {<<>>} \cup {<<GroupPermission("g-1", "b-1", "bg-1", m)>> : m \in GateGroupBits}

GateCallerGroups == {{}, {"g-1"}, {"g-2"}}

InitGate ==
    /\ InitBase
    /\ OlricCache = FALSE
    /\ \E owner \in GateOwners, g \in GateGroups, m \in GateMasks, user \in GateUsers,
          ug \in GateCallerGroups, cap \in Caps :
            gate = [p |-> PermissionInstance(owner, g, m), user |-> user, ugroups |-> ug,
                    cap |-> cap, done |-> FALSE, allowed |-> FALSE]

\* the gate is applied to the drawn permission, caller and capability
CallCheckBit ==
    /\ ~gate.done
    /\ gate' = [gate EXCEPT !.done = TRUE,
                            !.allowed = CheckBit(gate.p, gate.user, gate.ugroups, gate.cap)]
    /\ UNCHANGED <<db, cache, OlricCache, last, adminVars>>

NextGate == CallCheckBit

SpecGate == InitGate /\ [][NextGate]_vars

-----------------------------------------------------------------------------
(* AdminBootstrap *)

\* dbResource.Cruds, in one order (the statements of the loop are on different
\* tables and commute)
Cruds == <<"user_account", "usergroup", "world", "action", "blog", USER_ACCOUNT_LINK_TABLE,
           GroupJoinTable("world"), GroupJoinTable("action"), GroupJoinTable("blog")>>

\* the tables the ownership loop updates
OwnedTables == {Cruds[i] : i \in {j \in DOMAIN Cruds :
                    Cruds[j] # USER_ACCOUNT_LINK_TABLE /\ HasOwnerColumn(Cruds[j])}}

\* SELECT id FROM usergroup WHERE name = ?: the ids of the matching rows
UsergroupIds(view, groupName) ==
    {i \in DOMAIN view["usergroup"] : view["usergroup"][i].name = groupName}

\* UserGroupNameToIdWithTransaction(groupName, transaction): the id scanned
\* from the first row, 0 when there is none
UserGroupNameToIdWithTransaction(view, groupName) ==
    IF UsergroupIds(view, groupName) = {} THEN 0 ELSE Min(UsergroupIds(view, groupName))

\* GetUserMembersByGroupName(groupName) on dbResource.Connection: the rows of
\* the link table whose group has that name
GetUserMembersByGroupName(d, groupName) ==
    {i \in DOMAIN d[USER_ACCOUNT_LINK_TABLE] :
        d[USER_ACCOUNT_LINK_TABLE][i].usergroup_id \in UsergroupIds(d, groupName)}

\* GetAdminReferenceId(): the members of the administrators group
GetAdminReferenceId(d) == GetUserMembersByGroupName(d, "administrators")

\* A variant of CanBecomeAdmin that never finds an administrator.
CanBecomeAdmin_Always(d) == TRUE

\* CanBecomeAdmin(): it takes no transaction, d is the committed database
CanBecomeAdmin(d) == GetAdminReferenceId(d) = {}

\* A variant of the entry of BecomeAdmin without the CanBecomeAdmin check.
BecomeAdminEntry_NoCheck(d) == "own"

\* where BecomeAdmin goes from its entry: it returns false when
\* CanBecomeAdmin() is false, and goes on to the ownership loop otherwise
BecomeAdminEntry(d) == IF ~CanBecomeAdmin(d) THEN "returned" ELSE "own"

\* the tables a statement writes
Touches(s) ==
    CASE s.op = "own" -> {s.table}
      [] s.op = "member" -> {USER_ACCOUNT_LINK_TABLE}
      [] s.op \in {"world", "audit"} -> {"world"}
      [] s.op \in {"action", "signin"} -> {"action"}

\* table t carries uncommitted updates of a transaction other than p's; an
\* UPDATE of t on p's transaction cannot succeed before that one ends
Locked(p, t) ==
    \E q \in Callers \ {p} : \E i \in DOMAIN txlog[q] :
        txlog[q][i].op # "member" /\ t \in Touches(txlog[q][i])

\* the statements of the ownership loop that succeeded, in the order of Cruds
OwnStmts(u, failed) ==
    LET idx == SelectSeq([j \in DOMAIN Cruds |-> j],
                         LAMBDA j : Cruds[j] \in OwnedTables \ failed)
    IN  [k \in DOMAIN idx |-> Stmt("own", Cruds[idx[k]], u, 0)]

-----------------------------------------------------------------------------
(* Specification SpecAdmin: concurrent BecomeAdmin calls, each on its own
   transaction, which its caller commits or rolls back after the return *)

\* the userId arguments
AdminUsers == DOMAIN SeedDb["user_account"]

\* the sets of tables whose UPDATE fails in the ownership loop for a reason
\* other than a lock
OwnFailures == {{}, {"blog"}}

\* position of the callers that are inside BecomeAdmin
InCall == {"own", "insert", "world", "rest"}

Returns(p, r) ==
    /\ pc' = [pc EXCEPT ![p] = "returned"]
    /\ result' = [result EXCEPT ![p] = r]

\* BecomeAdmin(userId, transaction), from the call to the CanBecomeAdmin check
BecomeAdmin(p, u) ==
    /\ pc[p] = "idle"
    /\ userId' = [userId EXCEPT ![p] = u]
    /\ hist' = [hist EXCEPT !.at[p] =
                    [afterTrue |-> hist.returnedTrue, afterStep1 |-> hist.step1,
                     afterMember |-> hist.member, admin |-> GetAdminReferenceId(db) # {},
                     during |-> {q \in Callers : pc[q] \in InCall}]]
    /\ IF BecomeAdminEntry(db) = "returned"
       THEN Returns(p, "false")
       ELSE /\ pc' = [pc EXCEPT ![p] = "own"]
            /\ UNCHANGED result
    /\ UNCHANGED <<db, cache, OlricCache, last, txlog, gate, frame>>

\* the loop over Cruds: one UPDATE per table with a user_account_id column; a
\* failed UPDATE is logged and the loop continues
BecomeAdminOwn(p) ==
    /\ pc[p] = "own"
    /\ \E f \in OwnFailures :
        LET failed == f \cup {t \in OwnedTables : Locked(p, t)}
        IN  /\ txlog' = [txlog EXCEPT ![p] = @ \o OwnStmts(userId[p], failed)]
            /\ hist' = [hist EXCEPT !.step1 = @ \/ failed = {}]
    /\ pc' = [pc EXCEPT ![p] = "insert"]
    /\ UNCHANGED <<db, cache, OlricCache, last, userId, result, gate, frame>>

\* the lookup of the administrators group, whose error is overwritten, and
\* the INSERT of the membership row; a failed INSERT returns false
BecomeAdminInsert(p) ==
    /\ pc[p] = "insert"
    /\ \/ \E adminUsergroupId \in {UserGroupNameToIdWithTransaction(TxView(p), "administrators"), 0} :
            /\ txlog' = [txlog EXCEPT ![p] =
                            Append(@, Stmt("member", "", userId[p], adminUsergroupId))]
            /\ pc' = [pc EXCEPT ![p] = "world"]
            /\ UNCHANGED result
       \/ /\ Returns(p, "false")
          /\ UNCHANGED txlog
    /\ UNCHANGED <<db, cache, OlricCache, last, userId, hist, gate, frame>>

\* UPDATE world ... WHERE table_name NOT LIKE '%_audit'; a failure returns false
BecomeAdminWorld(p) ==
    /\ pc[p] = "world"
    /\ \/ /\ ~Locked(p, "world")
          /\ txlog' = [txlog EXCEPT ![p] = Append(@, Stmt("world", "", 0, 0))]
          /\ pc' = [pc EXCEPT ![p] = "rest"]
          /\ UNCHANGED result
       \/ /\ Returns(p, "false")
          /\ UNCHANGED txlog
    /\ UNCHANGED <<db, cache, OlricCache, last, userId, hist, gate, frame>>

\* the sets of statements that fail, for a reason other than a lock, among
\* those whose failure is only logged
RestFailures == {{}, {"action"}}

\* the statements whose failure is only logged, in order, without the failed
RestStmts(failed) ==
    SelectSeq(<<Stmt("audit", "", 0, 0), Stmt("action", "", 0, 0), Stmt("signin", "", 0, 0)>>,
              LAMBDA s : s.op \notin failed)

\* the UPDATEs of the audit tables, of the actions and of the signin action,
\* and the return of true
BecomeAdminRest(p) ==
    /\ pc[p] = "rest"
    /\ \E f \in RestFailures :
        LET failed == f \cup {o \in {"audit", "action", "signin"} :
                                \E t \in Touches(Stmt(o, "", 0, 0)) : Locked(p, t)}
        IN  txlog' = [txlog EXCEPT ![p] = @ \o RestStmts(failed)]
    /\ Returns(p, "true")
    /\ hist' = [hist EXCEPT !.returnedTrue = TRUE]
    /\ UNCHANGED <<db, cache, OlricCache, last, userId, gate, frame>>

\* the caller commits the transaction it passed to BecomeAdmin
Commit(p) ==
    /\ pc[p] = "returned"
    /\ db' = ApplyLog(txlog[p], db)
    /\ txlog' = [txlog EXCEPT ![p] = <<>>]
    /\ pc' = [pc EXCEPT ![p] = "closed"]
    /\ hist' = [hist EXCEPT !.member = @ \/ GetAdminReferenceId(db') # {}]
    /\ UNCHANGED <<cache, OlricCache, last, userId, result, gate, frame>>

\* the caller rolls the transaction back
Rollback(p) ==
    /\ pc[p] = "returned"
    /\ txlog' = [txlog EXCEPT ![p] = <<>>]
    /\ pc' = [pc EXCEPT ![p] = "closed"]
    /\ UNCHANGED <<db, cache, OlricCache, last, userId, result, hist, gate, frame>>

\* a CanBecomeAdmin() call of anyone
CallCanBecomeAdmin ==
    /\ last' = [op |-> "CanBecomeAdmin", val |-> CanBecomeAdmin(db),
                afterTrue |-> hist.returnedTrue]
    /\ UNCHANGED <<db, cache, OlricCache, adminVars, gate>>

InitAdmin ==
    /\ InitBase
    /\ OlricCache = FALSE
    /\ gate = NoGate

NextAdmin ==
    \/ \E p \in Callers, u \in AdminUsers : BecomeAdmin(p, u)
    \/ \E p \in Callers : BecomeAdminOwn(p)
    \/ \E p \in Callers : BecomeAdminInsert(p)
    \/ \E p \in Callers : BecomeAdminWorld(p)
    \/ \E p \in Callers : BecomeAdminRest(p)
    \/ \E p \in Callers : Commit(p)
    \/ \E p \in Callers : Rollback(p)
    \/ CallCanBecomeAdmin

SpecAdmin == InitAdmin /\ [][NextAdmin]_vars

-----------------------------------------------------------------------------
(* Specification SpecDegraded: every lookup against an unavailable store,
   next to the same lookup with the cache disabled (OlricCache nil) *)

Query(fn, a, n, b) == [fn |-> fn, a |-> a, n |-> n, b |-> b]

\* the lookups and their arguments
Queries ==
    {Query(fn, t, i, "") :
        fn \in {"GetIdToReferenceId", "GetIdToReferenceIdWithTransaction",
                "GetIdToObject", "GetIdToObjectWithTransaction"},
        t \in LookupTypes, i \in LookupIds}
    \cup UNION {{Query(fn, t, 0, ref) :
                    fn \in {"GetReferenceIdToId", "GetReferenceIdToIdWithTransaction"},
                    ref \in LookupRefs(t)} : t \in LookupTypes}
    \cup {Query(fn, "world", 0, t) :
            fn \in {"GetObjectPermissionByWhereClause",
                    "GetObjectPermissionByWhereClauseWithTransaction"},
            t \in {"blog", "page", "none"}}
    \cup {Query(fn, t, 1, "") :
            fn \in {"GetObjectGroupsByObjectId", "GetObjectGroupsByObjectIdWithTransaction"},
            t \in {"world", "action", "usergroup", "blog"}}
    \cup {Query("GetActionByName", t, 0, a) : t \in {"blog", "page"}, a \in {"publish", "signin"}}

\* the lookup q made with handle h on cache c, reading view
RunQuery(q, h, c, view) ==
    CASE q.fn = "GetIdToReferenceId" -> GetIdToReferenceId(h, c, view, q.a, q.n)
      [] q.fn = "GetIdToReferenceIdWithTransaction" ->
            GetIdToReferenceIdWithTransaction(h, c, view, q.a, q.n)
      [] q.fn = "GetReferenceIdToId" -> GetReferenceIdToId(h, c, view, q.a, q.b)
      [] q.fn = "GetReferenceIdToIdWithTransaction" ->
            GetReferenceIdToIdWithTransaction(h, c, view, q.a, q.b)
      [] q.fn = "GetIdToObject" -> GetIdToObject(h, c, view, q.a, q.n)
      [] q.fn = "GetIdToObjectWithTransaction" ->
            GetIdToObjectWithTransaction(h, c, view, q.a, q.n)
      [] q.fn = "GetObjectPermissionByWhereClause" ->
            GetObjectPermissionByWhereClause(h, c, view, q.a, "table_name", q.b)
      [] q.fn = "GetObjectPermissionByWhereClauseWithTransaction" ->
            GetObjectPermissionByWhereClauseWithTransaction(h, c, view, q.a, "table_name", q.b)
      [] q.fn = "GetObjectGroupsByObjectId" -> GetObjectGroupsByObjectId(h, c, view, q.a, q.n)
      [] q.fn = "GetObjectGroupsByObjectIdWithTransaction" ->
            GetObjectGroupsByObjectIdWithTransaction(h, c, view, q.a, q.n)
      [] q.fn = "GetActionByName" -> GetActionByName(h, c, view, q.a, q.b)

\* what the caller receives: the value, and the error of the lookups that
\* return one
Outcome(r) == [val |-> r.val, err |-> IF "err" \in DOMAIN r THEN r.err ELSE NoErr]

\* one lookup, made by the process whose store is unavailable and by a
\* process that runs with the cache disabled
CallDegraded(q) ==
    /\ last' = [op |-> "Degraded", q |-> q,
                degraded |-> Outcome(RunQuery(q, OlricCache, cache, TxView(1))),
                disabled |-> Outcome(RunQuery(q, FALSE, NoCache, TxView(1)))]
    /\ UNCHANGED <<db, cache, OlricCache, adminVars, gate>>

InitDegraded ==
    /\ db = SeedDb
    /\ cache = Unavailable
    /\ OlricCache = TRUE
    /\ last = NoCall
    /\ pc = [p \in Callers |-> "idle"]
    /\ userId = [p \in Callers |-> 0]
    /\ txlog = [p \in Callers |-> <<>>]
    /\ result = [p \in Callers |-> "none"]
    /\ hist = NoHist
    /\ frame = [p \in Callers |-> NoFrame]
    /\ gate = NoGate

NextDegraded ==
    \/ \E q \in Queries : CallDegraded(q)
    \/ \E t \in {"world", "action"}, perm \in PermChoices : SetPermission(t, 1, perm)

SpecDegraded == InitDegraded /\ [][NextDegraded]_vars

-----------------------------------------------------------------------------
(* Specification SpecRace: request threads inside GetIdToReferenceId and
   GetIdToReferenceIdWithTransaction, statement by statement *)

RaceFns == {"GetIdToReferenceId", "GetIdToReferenceIdWithTransaction"}

\* the time-to-live each of the two functions stores with
ItrTTL(fn) == IF fn = "GetIdToReferenceId" THEN 60 ELSE 300

\* v, err := OlricCache.Get(k); if err == nil { return v.(string), nil }
ItrGet(p, fn, t, i) ==
    /\ pc[p] = "idle"
    /\ IF OlricCache /\ CacheHit(cache, ItrKey(t, i))
       THEN /\ frame' = [frame EXCEPT ![p] =
                    [fn |-> fn, type |-> t, id |-> i, str |-> cache[ItrKey(t, i)].v,
                     err |-> IF cache[ItrKey(t, i)].kind = "string" THEN NoErr ELSE ErrPanic]]
            /\ pc' = [pc EXCEPT ![p] = "done"]
       ELSE /\ frame' = [frame EXCEPT ![p] =
                    [fn |-> fn, type |-> t, id |-> i, str |-> "", err |-> NoErr]]
            /\ pc' = [pc EXCEPT ![p] = "scan"]
    /\ UNCHANGED <<db, cache, OlricCache, last, userId, txlog, result, hist, gate>>

\* err = row.Scan(&str)
ItrScan(p) ==
    /\ pc[p] = "scan"
    /\ LET r == ScanReferenceId(IF frame[p].fn = "GetIdToReferenceId" THEN db ELSE TxView(p),
                                frame[p].type, frame[p].id)
       IN  frame' = [frame EXCEPT ![p].str = r.val, ![p].err = r.err]
    /\ pc' = [pc EXCEPT ![p] = "put"]
    /\ UNCHANGED <<db, cache, OlricCache, last, userId, txlog, result, hist, gate>>

\* OlricCache.PutIfEx(k, str, ttl, olric.IfNotFound) and the return; the
\* WithTransaction variant assigns the put's result to err
ItrPut(p) ==
    /\ pc[p] = "put"
    /\ LET k == ItrKey(frame[p].type, frame[p].id)
       IN  /\ cache' = IF OlricCache
                       THEN PutIfEx(cache, k, "string", frame[p].str, ItrTTL(frame[p].fn))
                       ELSE cache
           /\ frame' = [frame EXCEPT ![p].err =
                            IF OlricCache /\ frame[p].fn = "GetIdToReferenceIdWithTransaction"
                            THEN PutIfExErr(cache, k) ELSE @]
    /\ pc' = [pc EXCEPT ![p] = "done"]
    /\ UNCHANGED <<db, OlricCache, last, userId, txlog, result, hist, gate>>

\* the request ends; the thread serves the next one
ItrNext(p) ==
    /\ pc[p] = "done"
    /\ pc' = [pc EXCEPT ![p] = "idle"]
    /\ frame' = [frame EXCEPT ![p] = NoFrame]
    /\ UNCHANGED <<db, cache, OlricCache, last, userId, txlog, result, hist, gate>>

InitRace ==
    /\ InitBase
    /\ OlricCache = TRUE
    /\ gate = NoGate

NextRace ==
    \/ \E p \in Callers, fn \in RaceFns, t \in LookupTypes, i \in LookupIds : ItrGet(p, fn, t, i)
    \/ \E p \in Callers : ItrScan(p)
    \/ \E p \in Callers : ItrPut(p)
    \/ \E p \in Callers : ItrNext(p)
    \/ \E k \in DOMAIN cache : Expire(k)

SpecRace == InitRace /\ [][NextRace]_vars

-----------------------------------------------------------------------------
(* SpecMalformed: lookups on a store that other processes of the cluster
   write to, so a key can hold a value of another type than the lookup
   asserts *)

\* the cache key the lookup q reads first
QueryKey(q) ==
    CASE q.fn \in {"GetIdToReferenceId", "GetIdToReferenceIdWithTransaction"} ->
            ItrKey(q.a, q.n)
      [] q.fn \in {"GetReferenceIdToId", "GetReferenceIdToIdWithTransaction"} ->
            RitiKey(q.a, q.b)
      [] q.fn \in {"GetIdToObject", "GetIdToObjectWithTransaction"} -> ItoKey(q.a, q.n)
      [] q.fn = "GetObjectPermissionByWhereClause" -> PermissionKey(q.a, "table_name", q.b)
      [] q.fn = "GetObjectPermissionByWhereClauseWithTransaction" ->
            PermissionKeyWithTransaction(q.a, "table_name", q.b)
      [] q.fn = "GetObjectGroupsByObjectIdWithTransaction" -> ObjectGroupsKey(q.a, q.n)
      [] q.fn = "GetActionByName" -> ActionKey(q.a, q.b)
      [] OTHER -> ""

\* the lookups made under SpecMalformed
MalformedQueries ==
    {Query("GetIdToReferenceId", "user_account", 1, ""),
     Query("GetIdToReferenceIdWithTransaction", "user_account", 1, ""),
     Query("GetReferenceIdToId", "user_account", 0, "u-1"),
     Query("GetReferenceIdToIdWithTransaction", "blog", 0, "b-1"),
     Query("GetIdToObject", "blog", 1, ""),
     Query("GetObjectPermissionByWhereClause", "world", 0, "blog"),
     Query("GetObjectPermissionByWhereClauseWithTransaction", "world", 0, "blog"),
     Query("GetObjectGroupsByObjectIdWithTransaction", "world", 1, ""),
     Query("GetActionByName", "blog", 0, "publish")}

\* a value that is none of the types the lookups assert
Malformed == [kind |-> "[]byte", v |-> 0, ttl |-> 60]

\* another writer of the shared store puts a value of another type under k
PutMalformed(k) ==
    /\ k \notin DOMAIN cache
    /\ Cardinality(DOMAIN cache) <= MaxEntries
    /\ cache' = (k :> Malformed) @@ cache
    /\ UNCHANGED <<db, OlricCache, last, adminVars, gate>>

\* one lookup; fresh is what the same lookup returns with no cache
CallLookup(q) ==
    LET r == RunQuery(q, OlricCache, cache, db)
    IN  /\ Cardinality(DOMAIN cache) <= MaxEntries
        /\ cache' = r.cache
        /\ last' = [op |-> "Lookup", q |-> q,
                    malformed |-> CacheHit(cache, QueryKey(q))
                                    /\ cache[QueryKey(q)] = Malformed,
                    out |-> Outcome(r),
                    fresh |-> Outcome(RunQuery(q, FALSE, NoCache, db))]
        /\ UNCHANGED <<db, OlricCache, adminVars, gate>>

InitMalformed ==
    /\ InitBase
    /\ OlricCache = TRUE
    /\ gate = NoGate

NextMalformed ==
    \/ \E q \in MalformedQueries : CallLookup(q)
    \/ \E q \in MalformedQueries : PutMalformed(QueryKey(q))
    \/ \E k \in DOMAIN cache : Expire(k)

SpecMalformed == InitMalformed /\ [][NextMalformed]_vars

-----------------------------------------------------------------------------
(* SpecAlias: the loader mutates the row map GetIdToObject returned, and
   later lookups read the same key *)

\* the cache key whose stored value shares memory with the map the caller
\* holds after a lookup of key: none, since the store serialises the value
\* on PutIfEx and builds a new value on every Get
SharedKey_ByReference(key) == key
SharedKey(key) == ""

\* obj["__type"] = namespace
SetType(obj, namespace) == ("__type" :> namespace) @@ obj

\* the foreign key branch of ResultToArrayOfMap for an included relation:
\* obj, err := GetIdToObject(namespace, referenceIdInt); obj["__type"] = namespace
\* (a nil obj makes the assignment panic)
Include(t, i) ==
    LET key == ItoKey(t, i)
        r == GetIdToObject(OlricCache, cache, db, t, i)
        obj == SetType(r.val, t)
    IN  /\ Cardinality(DOMAIN cache) <= MaxEntries
        /\ cache' = IF r.val # NilObject /\ SharedKey(key) \in DOMAIN r.cache
                    THEN [r.cache EXCEPT ![SharedKey(key)].v = obj]
                    ELSE r.cache
        /\ last' = IF r.val = NilObject
                   THEN [op |-> "Include", type |-> t, id |-> i, err |-> ErrPanic]
                   ELSE [op |-> "Include", type |-> t, id |-> i, err |-> NoErr]
        /\ frame' = IF r.val = NilObject THEN frame
                    ELSE [frame EXCEPT ![1] = [fn |-> "Include", type |-> t, id |-> i,
                                               str |-> key, err |-> NoErr]]
        /\ UNCHANGED <<db, OlricCache, pc, userId, txlog, result, hist, gate>>

\* a later GetIdToObject(typeName, id); included tells that the loader
\* mutated a map it got for the entry now stored under the key
CallGetIdToObject(t, i) ==
    LET r == GetIdToObject(OlricCache, cache, db, t, i)
    IN  /\ Cardinality(DOMAIN cache) <= MaxEntries
        /\ cache' = r.cache
        /\ last' = [op |-> "GetIdToObject", type |-> t, id |-> i, val |-> r.val,
                    hit |-> r.hit,
                    included |-> frame[1].fn = "Include" /\ frame[1].str = ItoKey(t, i)]
        /\ UNCHANGED <<db, OlricCache, adminVars, gate>>

\* the entry under k expires; the maps handed out for it are forgotten
ExpireObject(k) ==
    /\ k \in DOMAIN cache
    /\ cache' = Evict(cache, k)
    /\ frame' = IF frame[1].str = k THEN [frame EXCEPT ![1] = NoFrame] ELSE frame
    /\ UNCHANGED <<db, OlricCache, last, pc, userId, txlog, result, hist, gate>>

InitAlias ==
    /\ InitBase
    /\ OlricCache = TRUE
    /\ gate = NoGate

NextAlias ==
    \/ \E t \in LookupTypes, i \in LookupIds : Include(t, i)
    \/ \E t \in LookupTypes, i \in LookupIds : CallGetIdToObject(t, i)
    \/ \E k \in DOMAIN cache : ExpireObject(k)

SpecAlias == InitAlias /\ [][NextAlias]_vars

-----------------------------------------------------------------------------
(* SpecTx: statements and WithTransaction lookups on one transaction
   handle, over the shared cache *)

\* the WithTransaction lookups made on the handle
TxQueries ==
    {Query("GetIdToReferenceIdWithTransaction", "user_account", 1, ""),
     Query("GetReferenceIdToIdWithTransaction", "blog", 0, "b-1"),
     Query("GetIdToObjectWithTransaction", "blog", 1, ""),
     Query("GetObjectPermissionByWhereClauseWithTransaction", "world", 0, "blog"),
     Query("GetObjectGroupsByObjectIdWithTransaction", "world", 1, "")}

\* the statements run on the handle: the UPDATEs of BecomeAdmin
TxStmts == {Stmt("own", "world", 2, 0), Stmt("own", "blog", 2, 0)}

\* transaction.Exec(query, args...)
TxExec(s) ==
    /\ \A n \in 1..Len(txlog[1]) : txlog[1][n] # s
    /\ TxView(1) # ApplyStmt(s, TxView(1))
    /\ txlog' = [txlog EXCEPT ![1] = Append(@, s)]
    /\ UNCHANGED <<db, cache, OlricCache, last, pc, userId, result, hist, frame, gate>>

\* one WithTransaction lookup on the handle; written is what the statement
\* of the lookup reads on the handle
TxLookup(q) ==
    LET r == RunQuery(q, OlricCache, cache, TxView(1))
    IN  /\ cache' = r.cache
        /\ last' = [op |-> "TxLookup", q |-> q, out |-> Outcome(r),
                    written |-> Outcome(RunQuery(q, FALSE, NoCache, TxView(1))),
                    afterWrite |-> txlog[1] # <<>>]
        /\ UNCHANGED <<db, OlricCache, adminVars, gate>>

\* transaction.Commit()
TxCommit ==
    /\ txlog[1] # <<>>
    /\ db' = TxView(1)
    /\ txlog' = [txlog EXCEPT ![1] = <<>>]
    /\ UNCHANGED <<cache, OlricCache, last, pc, userId, result, hist, frame, gate>>

\* transaction.Rollback()
TxRollback ==
    /\ txlog[1] # <<>>
    /\ txlog' = [txlog EXCEPT ![1] = <<>>]
    /\ UNCHANGED <<db, cache, OlricCache, last, pc, userId, result, hist, frame, gate>>

InitTx ==
    /\ InitBase
    /\ OlricCache = TRUE
    /\ gate = NoGate

NextTx ==
    \/ \E s \in TxStmts : TxExec(s)
    \/ \E q \in TxQueries : TxLookup(q)
    \/ TxCommit
    \/ TxRollback
    \/ \E d \in {cache[k].ttl : k \in DOMAIN cache} : Elapse(d)

SpecTx == InitTx /\ [][NextTx]_vars

-----------------------------------------------------------------------------
(* PermissionResolver for row maps: GetRowPermission and its helpers *)

\* a value of a row map (interface{}): absent key, nil, string or int64
Value(t, s, n) == [t |-> t, s |-> s, n |-> n]

Absent == Value("absent", "", 0)

Nil == Value("nil", "", 0)

Str(s) == Value("string", s, 0)

Int64(n) == Value("int64", "", n)

\* a Go int
GoInt(n) == Value("int", "", n)

\* the float64 h / 2
Float64(h) == Value("float64", "", h)

\* v == nil, for v read from the map
IsNil(v) == v.t \in {"absent", "nil"}

\* s, _ := v.(string)
AsString(v) == IF v.t = "string" THEN v.s ELSE ""

\* fmt.Sprintf("%v", v)
Sprint(v) ==
    CASE v.t = "string" -> v.s
      [] v.t \in {"int64", "int"} -> ToString(v.n)
      [] v.t = "float64" ->
            IF v.n % 2 = 0 THEN ToString(v.n \div 2) ELSE ToString(v.n \div 2) \o ".5"
      [] OTHER -> "<nil>"

\* the row map handed to GetRowPermission
RowMap(rowType, referenceId, id, owner, permission) ==
    [type |-> rowType, reference_id |-> referenceId, id |-> id,
     user_account_id |-> owner, permission |-> permission]

\* BeginsWith(str, beginsWith)
BeginsWith(str, prefix) ==
    Len(str) >= Len(prefix) /\ SubSeq(str, 1, Len(prefix)) = prefix

\* strings.Index(str, sub) > -1
Contains(str, sub) ==
    \E i \in 1..(Len(str) - Len(sub) + 1) : SubSeq(str, i, i + Len(sub) - 1) = sub

\* dbResource.Cruds[rowType] is present
HasCrud(rowType) == \E i \in DOMAIN Cruds : Cruds[i] = rowType

\* dbResource.Cruds[rowType].model.HasMany("usergroup"): a declared has_many
\* relation to usergroup has its join table in the database
HasManyUsergroup(view, rowType) == GroupJoinTable(rowType) \in DOMAIN view

\* refId, ok := row["reference_id"]; if !ok { refId = row["id"] }
RefIdOf(row) ==
    IF row.reference_id.t # "absent" THEN row.reference_id
    ELSE IF row.id.t = "absent" THEN Nil ELSE row.id

RowPanic(c) == [val |-> EmptyPermission, err |-> ErrPanic, cache |-> c]

\* {GroupReferenceId: "", ObjectReferenceId: "", RelationReferenceId: "",
\*  Permission: auth.GuestRead}
GuestOnly == <<GroupPermission("", "", "", GuestRead)>>

\* ids of the rows of typeName with the reference id; none when the table
\* does not exist
RefIds(view, typeName, referenceId) ==
    IF typeName \notin DOMAIN view THEN {} ELSE IdsByReference(view, typeName, referenceId)

\* GetIdToReferenceId[WithTransaction](USER_ACCOUNT_TABLE_NAME, id)
OwnerReference(tx, h, c, view, id) ==
    IF tx THEN GetIdToReferenceIdWithTransaction(h, c, view, USER_ACCOUNT_TABLE_NAME, id)
    ELSE GetIdToReferenceId(h, c, view, USER_ACCOUNT_TABLE_NAME, id)

\* the owner column of a loaded row once its foreign key lookup u is done:
\* "" stands for nil and for a value that is not a string
OwnerColumn(u) ==
    [val |-> IF u.err = NoErr THEN u.val ELSE "",
     err |-> IF u.err = ErrPanic THEN ErrPanic ELSE NoErr,
     cache |-> u.cache]

\* GetReferenceIdToObjectColumn[WithTransaction](typeName, referenceId,
\* "user_account_id"): the owner column of the first row with the reference id
GetReferenceIdToObjectColumn(tx, h, c, view, typeName, referenceId) ==
    IF RefIds(view, typeName, referenceId) = {}
    THEN [val |-> "", err |-> NoErr, cache |-> c]
    ELSE IF ~HasOwnerColumn(typeName)
            \/ view[typeName][Min(RefIds(view, typeName, referenceId))].user_account_id = 0
    THEN OwnerColumn(NoForeignKey(c))
    ELSE OwnerColumn(OwnerReference(tx, h, c, view,
            view[typeName][Min(RefIds(view, typeName, referenceId))].user_account_id))

\* GetObjectUserGroupsByWhere(objectType, "reference_id", referenceId): the
\* query selects the group and relation reference ids and the permission
GetObjectUserGroupsByWhere(view, objectType, referenceId) ==
    IF RefIds(view, objectType, referenceId) = {} THEN <<>>
    ELSE GroupsQuery(view, objectType, Min(RefIds(view, objectType, referenceId)), "")

\* GetObjectGroupsByObjectId[WithTransaction](objectType, id)
ObjectGroups(tx, h, c, view, objectType, id) ==
    IF tx THEN GetObjectGroupsByObjectIdWithTransaction(h, c, view, objectType, id)
    ELSE GetObjectGroupsByObjectId(h, c, view, objectType, id)

\* the PermissionInstance of row m once its owner lookup u and its group
\* lookup g are done
ScannedPermission(m, u, g) ==
    IF u.err = ErrPanic \/ "err" \in DOMAIN g
    THEN [val |-> EmptyPermission, err |-> ErrPanic, cache |-> g.cache, put |-> FALSE]
    ELSE [val |-> PermissionInstance(IF u.err = NoErr THEN u.val ELSE "", g.val,
                                     m.permission),
          err |-> NoErr, cache |-> g.cache, put |-> TRUE]

\* the row id of objectType, its groups looked up after the owner lookup u
ScanGroups(tx, h, view, objectType, id, u) ==
    ScannedPermission(view[objectType][id], u,
                      ObjectGroups(tx, h, u.cache, view, objectType, id))

\* the part of GetObjectPermissionByReferenceId[WithTransaction] after the
\* cache lookup, for the row id
ScanRow(tx, h, c, view, objectType, id) ==
    IF ~HasOwnerColumn(objectType) \/ view[objectType][id].user_account_id = 0
    THEN ScanGroups(tx, h, view, objectType, id, NoOwner(c))
    ELSE ScanGroups(tx, h, view, objectType, id,
                    OwnerReference(tx, h, c, view, view[objectType][id].user_account_id))

\* the part of GetObjectPermissionByReferenceId[WithTransaction] after the
\* cache lookup; no row leaves the zero PermissionInstance
ScanObjectPermission(tx, h, c, view, objectType, referenceId) ==
    IF RefIds(view, objectType, referenceId) = {}
    THEN [val |-> EmptyPermission, err |-> NoErr, cache |-> c, put |-> FALSE]
    ELSE ScanRow(tx, h, c, view, objectType, Min(RefIds(view, objectType, referenceId)))

\* what the caller of a lookup receives
Returned(r) == [val |-> r.val, err |-> r.err, cache |-> r.cache]

\* the result r stored under key for ttl seconds when the function reached
\* its PutIfEx
Stored(h, r, key, ttl) ==
    [val |-> r.val, err |-> r.err,
     cache |-> IF h /\ r.put THEN PutIfEx(r.cache, key, "PermissionInstance", r.val, ttl)
               ELSE r.cache]

\* GetObjectPermissionByReferenceId(objectType, referenceId)
GetObjectPermissionByReferenceId(h, c, view, objectType, referenceId) ==
    Returned(ScanObjectPermission(FALSE, h, c, view, objectType, referenceId))

\* fmt.Sprintf("opject-permission-%v-%v", objectType, referenceId)
ObjectPermissionKey(objectType, referenceId) ==
    "opject-permission-" \o objectType \o "-" \o referenceId

\* GetObjectPermissionByReferenceIdWithTransaction(objectType, referenceId, transaction)
GetObjectPermissionByReferenceIdWithTransaction(h, c, view, objectType, referenceId) ==
    IF h /\ CacheHit(c, ObjectPermissionKey(objectType, referenceId))
    THEN IF c[ObjectPermissionKey(objectType, referenceId)].kind = "PermissionInstance"
         THEN [val |-> c[ObjectPermissionKey(objectType, referenceId)].v, err |-> NoErr,
               cache |-> c]
         ELSE RowPanic(c)
    ELSE Stored(h, ScanObjectPermission(TRUE, h, c, view, objectType, referenceId),
                ObjectPermissionKey(objectType, referenceId), 1800)

\* GetObjectPermissionByReferenceId[WithTransaction](rowType, refId.(string))
ObjectPermission(tx, h, c, view, rowType, referenceId) ==
    IF tx THEN GetObjectPermissionByReferenceIdWithTransaction(h, c, view, rowType,
                                                               referenceId)
    ELSE GetObjectPermissionByReferenceId(h, c, view, rowType, referenceId)

\* the value of a decimal digit, -1 for any other character
DigitValue(ch) ==
    CASE ch = "0" -> 0 [] ch = "1" -> 1 [] ch = "2" -> 2 [] ch = "3" -> 3 [] ch = "4" -> 4
      [] ch = "5" -> 5 [] ch = "6" -> 6 [] ch = "7" -> 7 [] ch = "8" -> 8 [] ch = "9" -> 9
      [] OTHER -> -1

\* the digits of s from position i on, read after the value acc; -1 when
\* one of them is not a digit
RECURSIVE ParseDigits(_, _, _)
ParseDigits(s, i, acc) ==
    IF i > Len(s) THEN acc
    ELSE IF DigitValue(SubSeq(s, i, i)) < 0 THEN -1
    ELSE ParseDigits(s, i + 1, 10 * acc + DigitValue(SubSeq(s, i, i)))

\* i64, err = strconv.ParseInt(s, 10, 64): i64 is 0 when err is a syntax
\* error (values stay far below 2^63)
ParseInt(s) ==
    IF Len(s) = 0 THEN 0
    ELSE IF SubSeq(s, 1, 1) \in {"+", "-"}
    THEN IF Len(s) = 1 \/ ParseDigits(s, 2, 0) < 0 THEN 0
         ELSE IF SubSeq(s, 1, 1) = "-" THEN 0 - ParseDigits(s, 2, 0)
         ELSE ParseDigits(s, 2, 0)
    ELSE IF ParseDigits(s, 1, 0) < 0 THEN 0
    ELSE ParseDigits(s, 1, 0)

\* rowPermission.(int64), else .(float64), else .(string): the last
\* assertion is unchecked
PermissionConverts(v) == v.t \in {"int64", "float64", "string"}

\* auth.AuthPermission(i64) for a row permission that converts; int64(f64)
\* truncates toward zero
PermissionBits(v) ==
    CASE v.t = "int64" -> v.n
      [] v.t = "float64" -> IF v.n >= 0 THEN v.n \div 2 ELSE 0 - ((0 - v.n) \div 2)
      [] OTHER -> ParseInt(v.s)

\* perm.UserGroupId of a row that is not guest-only
RowGroups(view, rowType, refId) ==
    IF ~Contains(rowType, "_has_") /\ HasManyUsergroup(view, rowType)
    THEN GetObjectUserGroupsByWhere(view, rowType, refId.s)
    ELSE IF rowType = "usergroup"
    THEN <<GroupPermission(refId.s, refId.s, refId.s, UsergroupDefaultPermission)>>
    ELSE <<>>

\* perm.Permission taken from the object's own permission pe
FromObject(owner, groups, pe) ==
    IF pe.err = ErrPanic
    THEN [val |-> EmptyPermission, err |-> ErrPanic, cache |-> pe.cache, put |-> FALSE]
    ELSE [val |-> PermissionInstance(owner, groups, pe.val.Permission), err |-> NoErr,
          cache |-> pe.cache, put |-> TRUE]

\* the part of GetRowPermission[WithTransaction] after the owner u was found
AfterOwner(tx, h, view, row, refId, u) ==
    IF u.err = ErrPanic
    THEN [val |-> EmptyPermission, err |-> ErrPanic, cache |-> u.cache, put |-> FALSE]
    ELSE IF BeginsWith(row.type, "file.") \/ row.type = "none"
    THEN [val |-> PermissionInstance(u.val, GuestOnly, 0), err |-> NoErr,
          cache |-> u.cache, put |-> FALSE]
    ELSE IF \/ ~Contains(row.type, "_has_") /\ ~HasCrud(row.type)
            \/ /\ row.type = "usergroup"
                    \/ (~Contains(row.type, "_has_") /\ HasManyUsergroup(view, row.type))
               /\ refId.t # "string"
    THEN \* a nil Cruds entry, or refId.(string) at the group lookup
         [val |-> EmptyPermission, err |-> ErrPanic, cache |-> u.cache, put |-> FALSE]
    ELSE IF ~IsNil(row.permission) /\ ~PermissionConverts(row.permission)
    THEN \* rowPermission.(string) on a value of another type
         [val |-> EmptyPermission, err |-> ErrPanic, cache |-> u.cache, put |-> FALSE]
    ELSE IF ~IsNil(row.permission)
    THEN [val |-> PermissionInstance(u.val, RowGroups(view, row.type, refId),
                                     PermissionBits(row.permission)),
          err |-> NoErr, cache |-> u.cache, put |-> TRUE]
    ELSE IF refId.t # "string"
    THEN [val |-> EmptyPermission, err |-> ErrPanic, cache |-> u.cache, put |-> FALSE]
    ELSE FromObject(u.val, RowGroups(view, row.type, refId),
                    ObjectPermission(tx, h, u.cache, view, row.type, refId.s))

\* the part of GetRowPermission[WithTransaction] after the cache lookup; put
\* tells whether the function reaches its PutIfEx
ComputeRowPermission(tx, h, c, view, row) ==
    IF row.type # "usergroup" /\ IsNil(row.user_account_id)
    THEN IF RefIdOf(row).t # "string"
         THEN \* refId.(string) at the owner lookup
              [val |-> EmptyPermission, err |-> ErrPanic, cache |-> c, put |-> FALSE]
         ELSE AfterOwner(tx, h, view, row, RefIdOf(row),
                         GetReferenceIdToObjectColumn(tx, h, c, view, row.type,
                                                      RefIdOf(row).s))
    ELSE AfterOwner(tx, h, view, row, RefIdOf(row),
                    [val |-> IF row.type = "usergroup" THEN ""
                             ELSE AsString(row.user_account_id),
                     err |-> NoErr, cache |-> c])

\* GetRowPermission(row)
GetRowPermission(h, c, view, row) == Returned(ComputeRowPermission(FALSE, h, c, view, row))

\* fmt.Sprintf("row-permission-%v-%v", rowType, refId)
RowPermissionKey(row) == "row-permission-" \o row.type \o "-" \o Sprint(RefIdOf(row))

\* GetRowPermissionWithTransaction(row, transaction)
GetRowPermissionWithTransaction(h, c, view, row) ==
    IF h /\ CacheHit(c, RowPermissionKey(row))
    THEN IF c[RowPermissionKey(row)].kind = "PermissionInstance"
         THEN [val |-> c[RowPermissionKey(row)].v, err |-> NoErr, cache |-> c]
         ELSE RowPanic(c)
    ELSE Stored(h, ComputeRowPermission(TRUE, h, c, view, row), RowPermissionKey(row), 60)

-----------------------------------------------------------------------------
(* SpecRow: GetRowPermission and GetRowPermissionWithTransaction on row maps
   of every shape *)

RowTypes == {"file.image", "none", "blog"}

RowReferenceIds == {Absent, Str("r"), Str("b-1")}

RowIds == {Absent, Int64(1)}

RowOwners == {Absent, Str("u-1")}

RowPermissions == {Absent, Int64(0)}

RowMaps ==
    {RowMap(t, ref, id, owner, perm) :
        t \in RowTypes, ref \in RowReferenceIds, id \in RowIds, owner \in RowOwners,
        perm \in RowPermissions}

CallGetRowPermission(row) ==
    LET r == GetRowPermission(OlricCache, cache, db, row)
    IN  /\ Cardinality(DOMAIN cache) <= MaxEntries
        /\ cache' = r.cache
        /\ last' = [op |-> "GetRowPermission", row |-> row, val |-> r.val, err |-> r.err]
        /\ UNCHANGED <<db, OlricCache, adminVars, gate>>

CallGetRowPermissionWithTransaction(row) ==
    LET r == GetRowPermissionWithTransaction(OlricCache, cache, TxView(1), row)
    IN  /\ Cardinality(DOMAIN cache) <= MaxEntries
        /\ cache' = r.cache
        /\ last' = [op |-> "GetRowPermissionWithTransaction", row |-> row, val |-> r.val,
                    err |-> r.err]
        /\ UNCHANGED <<db, OlricCache, adminVars, gate>>

InitRow ==
    /\ InitBase
    /\ OlricCache = TRUE
    /\ gate = NoGate

NextRow ==
    \/ \E row \in RowMaps : CallGetRowPermission(row)
    \/ \E row \in RowMaps : CallGetRowPermissionWithTransaction(row)
    \/ \E d \in {cache[k].ttl : k \in DOMAIN cache} : Elapse(d)

SpecRow == InitRow /\ [][NextRow]_vars

-----------------------------------------------------------------------------
(* SpecGroupRow: GetRowPermission and GetRowPermissionWithTransaction on row
   maps of type usergroup, with and without a has_many relation from
   usergroup to usergroup declared *)

\* the database when usergroup declares has_many usergroup: the join table
\* exists and links group 1 to group 2
GroupOfGroupsDb ==
    [t \in DOMAIN SeedDb \cup {GroupJoinTable("usergroup")} |->
        IF t = GroupJoinTable("usergroup")
        THEN (1 :> Row("gg-1", 0, GroupRead, "", 0, 0, 1, 2))
        ELSE SeedDb[t]]

GroupRowReferenceIds == {Absent, Nil, Str("g-1"), Str("g-0")}

GroupRowMaps ==
    {RowMap("usergroup", ref, id, owner, perm) :
        ref \in GroupRowReferenceIds, id \in RowIds, owner \in RowOwners,
        perm \in RowPermissions}

InitGroupRow ==
    /\ db \in {SeedDb, GroupOfGroupsDb}
    /\ cache = NoCache
    /\ last = NoCall
    /\ pc = [p \in Callers |-> "idle"]
    /\ userId = [p \in Callers |-> 0]
    /\ txlog = [p \in Callers |-> <<>>]
    /\ result = [p \in Callers |-> "none"]
    /\ hist = NoHist
    /\ frame = [p \in Callers |-> NoFrame]
    /\ OlricCache = TRUE
    /\ gate = NoGate

NextGroupRow ==
    \/ \E row \in GroupRowMaps : CallGetRowPermission(row)
    \/ \E row \in GroupRowMaps : CallGetRowPermissionWithTransaction(row)
    \/ \E d \in {cache[k].ttl : k \in DOMAIN cache} : Elapse(d)

SpecGroupRow == InitGroupRow /\ [][NextGroupRow]_vars

-----------------------------------------------------------------------------
(* SpecBits: GetRowPermission and GetRowPermissionWithTransaction on row maps
   whose permission value has every type a caller can put there *)

BitsRowTypes == {"blog", "file.image"}

BitsReferenceIds == {Absent, Str("b-1")}

BitsPermissions ==
    {Absent, Int64(5), GoInt(5), Float64(10), Float64(5), Str("5"), Str("12"), Str("x")}

BitsRowMaps ==
    {RowMap(t, ref, Int64(1), Str("u-1"), perm) :
        t \in BitsRowTypes, ref \in BitsReferenceIds, perm \in BitsPermissions}

InitBits ==
    /\ InitBase
    /\ OlricCache = TRUE
    /\ gate = NoGate

NextBits ==
    \/ \E row \in BitsRowMaps : CallGetRowPermission(row)
    \/ \E row \in BitsRowMaps : CallGetRowPermissionWithTransaction(row)
    \/ \E d \in {cache[k].ttl : k \in DOMAIN cache} : Elapse(d)

SpecBits == InitBits /\ [][NextBits]_vars

-----------------------------------------------------------------------------
(* SpecEscape: WithTransaction lookups on a transaction that is rolled back,
   next to lookups made outside it (without a handle, or on the handle of
   another transaction that has written nothing).  Nothing is ever
   committed, so the committed database never changes; no entry expires *)

\* the WithTransaction lookups made on the transaction
EscapeQueries ==
    {Query("GetIdToObjectWithTransaction", "blog", 1, ""),
     Query("GetObjectPermissionByWhereClauseWithTransaction", "world", 0, "blog")}

\* the lookups made outside the transaction
OutsideQueries ==
    {Query("GetIdToObject", "blog", 1, ""),
     Query("GetIdToObjectWithTransaction", "blog", 1, ""),
     Query("GetObjectPermissionByWhereClause", "world", 0, "blog"),
     Query("GetObjectPermissionByWhereClauseWithTransaction", "world", 0, "blog")}

\* the row map of blog row 1 as a caller holds it, without its permission
EscapeRow == RowMap("blog", Str("b-1"), Int64(1), Str("u-2"), Absent)

\* one lookup outside the transaction; committed is what the database holds
OutsideLookup(q) ==
    LET r == RunQuery(q, OlricCache, cache, TxView(2))
    IN  /\ cache' = r.cache
        /\ last' = [op |-> "Outside", q |-> q, out |-> Outcome(r),
                    committed |-> Outcome(RunQuery(q, FALSE, NoCache, db)),
                    rolledBack |-> txlog[1] = <<>>]
        /\ UNCHANGED <<db, OlricCache, adminVars, gate>>

\* GetRowPermissionWithTransaction(row, transaction) on the transaction
TxRowPermission ==
    LET r == GetRowPermissionWithTransaction(OlricCache, cache, TxView(1), EscapeRow)
    IN  /\ cache' = r.cache
        /\ last' = [op |-> "TxRowPermission", out |-> Outcome(r)]
        /\ UNCHANGED <<db, OlricCache, adminVars, gate>>

\* GetRowPermissionWithTransaction(row, transaction2) on the other handle
OutsideRowPermission ==
    LET r == GetRowPermissionWithTransaction(OlricCache, cache, TxView(2), EscapeRow)
    IN  /\ cache' = r.cache
        /\ last' = [op |-> "Outside", q |-> Query("GetRowPermissionWithTransaction", "blog", 1, "b-1"),
                    out |-> Outcome(r),
                    committed |-> Outcome(GetRowPermissionWithTransaction(FALSE, NoCache, db,
                                                                         EscapeRow)),
                    rolledBack |-> txlog[1] = <<>>]
        /\ UNCHANGED <<db, OlricCache, adminVars, gate>>

InitEscape ==
    /\ InitBase
    /\ OlricCache = TRUE
    /\ gate = NoGate

NextEscape ==
    \/ \E s \in TxStmts : TxExec(s)
    \/ \E q \in EscapeQueries : TxLookup(q)
    \/ TxRowPermission
    \/ TxRollback
    \/ \E q \in OutsideQueries : OutsideLookup(q)
    \/ OutsideRowPermission

SpecEscape == InitEscape /\ [][NextEscape]_vars

-----------------------------------------------------------------------------
(* RowLoader: the related rows ResultToArrayOfMap loads for one parent row
   and one has_many relation *)

\* .Limit(50)
RelationLimit == 50

\* up to MaxSmall link rows are drawn with every assignment of created_at in
\* 1..MaxTime; longer inputs reach MaxExtra rows past the limit
MaxSmall == 3

MaxTime == 2

MaxExtra == 2

\* the orderings of the finite set S
Perms(S) ==
    {p \in [1..Cardinality(S) -> S] : \A i, j \in 1..Cardinality(S) : p[i] = p[j] => i = j}

Range(seq) == {seq[k] : k \in 1..Len(seq)}

Reverse(seq) == [k \in 1..Len(seq) |-> seq[Len(seq) + 1 - k]]

\* the objects linked to the parent: link row i joins the parent to object
\* i and created[i] is the link row's created_at
SmallLinks == UNION {[1..n -> 1..MaxTime] : n \in 0..MaxSmall}

Ascending(n) == [i \in 1..n |-> i]

Descending(n) == [i \in 1..n |-> n + 1 - i]

\* distinct created_at values in neither id order (7 divides none of n + 1)
Scattered(n) == [i \in 1..n |-> (7 * i) % (n + 1)]

LargeLinks ==
    UNION {{Ascending(n), Descending(n), Scattered(n)} :
            n \in (RelationLimit - 1)..(RelationLimit + MaxExtra)}

\* the link rows by created_at, newest first, for distinct created_at values
RECURSIVE SortByCreated(_, _)
SortByCreated(created, S) ==
    IF S = {} THEN <<>>
    ELSE LET newest == CHOOSE i \in S : \A j \in S : created[i] >= created[j]
         IN  <<newest>> \o SortByCreated(created, S \ {newest})

\* ORDER BY <join>.created_at DESC: every order the database can return,
\* rows with equal created_at in any order
OrderByCreatedDesc(created) ==
    IF Len(created) <= MaxSmall
    THEN {p \in Perms(DOMAIN created) :
            \A i, j \in 1..Len(created) : i < j => created[p[i]] >= created[p[j]]}
    ELSE {SortByCreated(created, DOMAIN created)}

\* A variant of Limit that returns every row.
Limit_Unbounded(rows, n) == rows
\* LIMIT n
Limit(rows, n) == SubSeq(rows, 1, Min({Len(rows), n}))

\* SELECT <object>.id ... ORDER BY <join>.created_at DESC LIMIT 50, scanned
\* into ids
IncludeIds(created) == {Limit(p, RelationLimit) : p \in OrderByCreatedDesc(created)}

\* GetAllObjectsWithWhere(typeName, goqu.Ex{"id": ids}): SELECT * FROM
\* typeName WHERE id IN (...) carries no ORDER BY, so the rows come in an
\* order of the database's choosing
GetAllObjectsWithWhere(ids) ==
    IF Cardinality(Range(ids)) <= MaxSmall THEN Perms(Range(ids))
    ELSE {SortedSeq(Range(ids)), Reverse(SortedSeq(Range(ids)))}

\* incl["reference_id"].(string) of object i
ObjectReference(i) == "o-" \o ToString(i)

-----------------------------------------------------------------------------
(* SpecRel: ResultToArrayOfMap loading one included has_many relation *)

\* the relation branch for one parent row: ids, includes1, the parent's
\* relation field and what is appended to localInclude
LoadRelation(created, ids, includes1) ==
    /\ last' = [op |-> "ResultToArrayOfMap", created |-> created, ids |-> ids,
                includes1 |-> includes1,
                field |-> [k \in 1..Len(includes1) |-> ObjectReference(includes1[k])],
                localInclude |-> Len(includes1)]
    /\ UNCHANGED <<db, cache, OlricCache, adminVars, gate>>

InitRel ==
    /\ InitBase
    /\ OlricCache = TRUE
    /\ gate = NoGate

NextRel ==
    \E created \in SmallLinks \cup LargeLinks :
        \E ids \in IncludeIds(created) :
            \E includes1 \in GetAllObjectsWithWhere(ids) :
                LoadRelation(created, ids, includes1)

SpecRel == InitRel /\ [][NextRel]_vars

-----------------------------------------------------------------------------
(* Loaders: prepared statements, result sets, included objects *)

\* the error of a failed Preparex, Queryx or Scan
ErrDb == "db error"

\* a method called through a nil *sqlx.Stmt or *sqlx.Rows, or a write to a
\* nil map
ErrNilPointer == "panic: nil pointer dereference"

\* the query a database step fails in: the loader's own query (main),
\* GetIdToReferenceId and GetIdToObject of a foreign key column (fkid,
\* fkobject), the id query of a relation of the subject (subject), of the
\* object (belongs_to, has_many), and the load of the related rows (related)
Sites == {"main", "fkid", "fkobject", "subject", "belongs_to", "has_many", "related"}

Steps == {"prepare", "execute", "scan"}

NoFault == "none"

Fault(site, step) == site \o "." \o step

Faults == {NoFault} \cup {Fault(site, step) : site \in Sites, step \in Steps}

\* the order a SELECT without ORDER BY returns its rows in
Orders == {"asc", "desc"}

\* a handle is nil (never opened), open, closed, or nil with Close called on it
Preparex(fault, site) == IF fault = Fault(site, "prepare") THEN "nil" ELSE "open"

Queryx(fault, site) == IF fault = Fault(site, "execute") THEN "nil" ELSE "open"

Close(handle) == IF handle = "nil" THEN "nil closed" ELSE "closed"

\* what a loader returns, and the statement and the result set of its query
\* as it leaves them
Loaded(rows, includes, err, stmt, res) ==
    [rows |-> rows, includes |-> includes, err |-> err, stmt |-> stmt, res |-> res]

\* the deferred Close calls run when the loader returns; one that is called
\* on a nil handle panics in place of the return
Deferred(rows, includes, err, stmt, res) ==
    IF "nil closed" \in {stmt, res}
    THEN Loaded(<<>>, <<>>, ErrNilPointer, stmt, res)
    ELSE Loaded(rows, includes, err, stmt, res)

\* RowsToMap(rows, typeName): dbRow["__type"] = typeName
RowsToMap(view, table, ids, typeName) ==
    [k \in 1..Len(ids) |->
        SetType(ObjectMap(ids[k], view[table][ids[k]],
                          RawKey(view[table][ids[k]].user_account_id)), typeName)]

\* the rows of a SELECT in the order the database chose
InOrder(S, order) == IF order = "asc" THEN SortedSeq(S) ELSE Reverse(SortedSeq(S))

\* tableInfo.Relations: every world row has_many usergroup through the join
\* table, every action belongs_to a world
Relations ==
    <<[Subject |-> "world", Object |-> "usergroup", Relation |-> "has_many"],
      [Subject |-> "action", Object |-> "world", Relation |-> "belongs_to"]>>

GetSubjectName(relation) == relation.Subject \o "_id"

GetObjectName(relation) == relation.Object \o "_id"

\* the names an include list is drawn from
IncludeNames == {"user_account_id", "usergroup_id", "world_id", "action_id"}

\* includedRelationMap[relation.GetObjectName()] ||
\* includedRelationMap[relation.GetSubjectName()]
Included(include, relation) ==
    GetObjectName(relation) \in include \/ GetSubjectName(relation) \in include

\* the ids the id query of a relation selects for the parent row `id`,
\* newest link first (link rows are numbered in creation order)
LinkIds(view, relation, side, id) ==
    IF relation.Relation = "belongs_to"
    THEN Reverse(SortedSeq({i \in DOMAIN view[relation.Subject] :
                              view[relation.Subject][i].world_id = id}))
    ELSE LET join == view[GroupJoinTable(relation.Subject)]
             links == Reverse(SortedSeq({j \in DOMAIN join :
                         IF side = "subject" THEN join[j].object_id = id
                         ELSE join[j].usergroup_id = id}))
         IN  [k \in 1..Len(links) |->
                 IF side = "subject" THEN join[links[k]].usergroup_id
                 ELSE join[links[k]].object_id]

\* GetAllObjectsWithWhere(typeName, goqu.Ex{"id": ids}) called on
\* dbResource.Cruds[...]: the statement is closed only when it was prepared,
\* the rows only when the query ran, and the rows are converted by
\* dbResource.Cruds[typeName].ResultToArrayOfMap (no include, and no foreign
\* key of the related rows is followed here)
GetAllObjectsWithWhere_Handles(view, typeName, ids, order, fault, site) ==
    IF Preparex(fault, site) = "nil" THEN Loaded(<<>>, <<>>, ErrDb, "nil", "nil")
    ELSE IF Queryx(fault, site) = "nil" THEN Loaded(<<>>, <<>>, ErrDb, "closed", "nil")
    ELSE IF fault = Fault(site, "scan") THEN Loaded(<<>>, <<>>, ErrDb, "closed", "closed")
    ELSE Loaded(RowsToMap(view, typeName,
                          InOrder(Range(ids) \cap DOMAIN view[typeName], order),
                          typeName),
                <<>>, NoErr, "closed", "closed")

\* what one relation adds to a parent row: the relation field (set or not),
\* the objects appended to localInclude, and the error that ends the load
Related(set, objects, err) == [set |-> set, objects |-> objects, err |-> err]

\* the field is set and filled from the rows GetAllObjectsWithWhere returned;
\* its error is dropped
FromRelated(loaded) == Related(TRUE, loaded.rows, NoErr)

\* has_many from the subject side: a failed Preparex or Queryx is returned,
\* a failed Scan skips the id, no ids skips the relation
SubjectHasMany(view, relation, id, order, fault) ==
    IF fault \in {Fault("subject", "prepare"), Fault("subject", "execute")}
    THEN Related(FALSE, <<>>, ErrDb)
    ELSE IF fault = Fault("subject", "scan") \/ LinkIds(view, relation, "subject", id) = <<>>
    THEN Related(FALSE, <<>>, NoErr)
    ELSE FromRelated(GetAllObjectsWithWhere_Handles(view, relation.Object,
                        LinkIds(view, relation, "subject", id), order, fault, "related"))

\* belongs_to from the object side: after a failed Preparex stmt1 is nil and
\* stmt1.Queryx is called on it; after a failed Queryx includedSubject is nil
\* and includedSubject.Err() is called on it; a failed Scan appends the zero id
ObjectBelongsTo(view, relation, id, order, fault) ==
    IF fault \in {Fault("belongs_to", "prepare"), Fault("belongs_to", "execute")}
    THEN Related(FALSE, <<>>, ErrNilPointer)
    ELSE IF LinkIds(view, relation, "object", id) = <<>>
    THEN Related(FALSE, <<>>, NoErr)
    ELSE FromRelated(GetAllObjectsWithWhere_Handles(view, relation.Subject,
                        IF fault = Fault("belongs_to", "scan") THEN <<0>>
                        ELSE LinkIds(view, relation, "object", id),
                        order, fault, "related"))

\* has_many from the object side: after a failed Preparex stmt1.Queryx is
\* called on nil; a failed Queryx skips the relation, a failed Scan the id
ObjectHasMany(view, relation, id, order, fault) ==
    IF fault = Fault("has_many", "prepare")
    THEN Related(FALSE, <<>>, ErrNilPointer)
    ELSE IF fault \in {Fault("has_many", "execute"), Fault("has_many", "scan")}
            \/ LinkIds(view, relation, "object", id) = <<>>
    THEN Related(FALSE, <<>>, NoErr)
    ELSE FromRelated(GetAllObjectsWithWhere_Handles(view, relation.Subject,
                        LinkIds(view, relation, "object", id), order, fault, "related"))

\* one relation of dbResource.tableInfo for one parent row
IncludeRelation(view, recv, relation, id, order, fault) ==
    IF relation.Subject = recv
    THEN IF relation.Relation = "has_many"
         THEN SubjectHasMany(view, relation, id, order, fault)
         ELSE Related(FALSE, <<>>, NoErr)
    ELSE IF relation.Relation = "belongs_to"
         THEN ObjectBelongsTo(view, relation, id, order, fault)
         ELSE ObjectHasMany(view, relation, id, order, fault)

\* the name of the relation field in the parent row
RelationField(recv, relation) ==
    IF relation.Subject = recv THEN GetObjectName(relation) ELSE GetSubjectName(relation)

\* incl["reference_id"].(string) of every related row
ReferenceIds(objects) == [k \in 1..Len(objects) |-> objects[k].reference_id]

\* the value ResultToArrayOfMap leaves in the foreign key column
\* user_account_id: the owner's reference id, or the id itself when
\* GetIdToReferenceId failed
ResolveOwner(view, typeName, id, fault) ==
    IF ~HasOwnerColumn(typeName) \/ view[typeName][id].user_account_id = 0 THEN ""
    ELSE IF fault \in {Fault("fkid", step) : step \in Steps}
            \/ ScanReferenceId(view, USER_ACCOUNT_TABLE_NAME,
                               view[typeName][id].user_account_id).err # NoErr
    THEN RawKey(view[typeName][id].user_account_id)
    ELSE ScanReferenceId(view, USER_ACCOUNT_TABLE_NAME,
                         view[typeName][id].user_account_id).val

\* the one row GetIdToObject converts with dbResource.ResultToArrayOfMap
ConvertOne(view, recv, typeName, id, fault) ==
    SetType(ObjectMap(id, view[typeName][id], ResolveOwner(view, typeName, id, fault)), recv)

\* GetIdToObject(typeName, id) with the store disabled: both Close calls are
\* deferred before the error of Preparex and of Queryx is looked at, the
\* error of ResultToArrayOfMap is overwritten by that of row.Close(), and no
\* row gives (nil, nil)
GetIdToObject_Handles(view, recv, typeName, id, fault, site) ==
    IF Preparex(fault, site) = "nil"
    THEN Deferred(<<>>, <<>>, ErrDb, Close("nil"), "nil")
    ELSE IF Queryx(fault, site) = "nil"
    THEN Deferred(<<>>, <<>>, ErrDb, Close("open"), Close("nil"))
    ELSE IF fault = Fault(site, "scan") \/ id \notin DOMAIN view[typeName]
    THEN Deferred(<<>>, <<>>, NoErr, Close("open"), Close("open"))
    ELSE Deferred(<<ConvertOne(view, recv, typeName, id, fault)>>, <<>>, NoErr,
                  Close("open"), Close("open"))

\* a parent row being filled: the row, its localInclude, and the error that
\* ends the load
Filled(row, include, err) == [row |-> row, include |-> include, err |-> err]

\* includedRelationMap[namespace] || includedRelationMap[columnInfo.ColumnName]
\* || includedRelationMap["*"]
ForeignKeyIncluded(include) == include \cap {"user_account", "user_account_id", "*"} # {}

\* obj, err := dbResource.GetIdToObject(namespace, id); an error is returned,
\* obj["__type"] = namespace writes to a nil map when no object came back
IncludeObject(row, loaded) ==
    IF loaded.err # NoErr THEN Filled(row, <<>>, loaded.err)
    ELSE IF loaded.rows = <<>> THEN Filled(row, <<>>, ErrNilPointer)
    ELSE Filled(row, <<SetType(loaded.rows[1], USER_ACCOUNT_TABLE_NAME)>>, NoErr)

\* the foreign key column of one parent row: row[key] = refId, and the
\* owner's object when it is included
ForeignKey(view, recv, typeName, id, include, fault) ==
    IF ForeignKeyIncluded(include)
       /\ ResolveOwner(view, typeName, id, fault)
             \notin {"", RawKey(view[typeName][id].user_account_id)}
    THEN IncludeObject(ConvertOne(view, recv, typeName, id, fault),
                       GetIdToObject_Handles(view, recv, USER_ACCOUNT_TABLE_NAME,
                                             view[typeName][id].user_account_id,
                                             fault, "fkobject"))
    ELSE Filled(ConvertOne(view, recv, typeName, id, fault), <<>>, NoErr)

\* row[field] = the reference ids of the related rows, which are appended to
\* localInclude
AddRelation(filled, field, related) ==
    Filled(IF related.set THEN (field :> ReferenceIds(related.objects)) @@ filled.row
           ELSE filled.row,
           filled.include \o related.objects, related.err)

\* for _, relation := range dbResource.tableInfo.Relations
RECURSIVE IncludeRelations(_, _, _, _, _, _, _)
IncludeRelations(view, recv, include, order, fault, k, filled) ==
    IF filled.err # NoErr \/ k > Len(Relations) THEN filled
    ELSE IF recv \notin {Relations[k].Subject, Relations[k].Object}
            \/ ~Included(include, Relations[k])
    THEN IncludeRelations(view, recv, include, order, fault, k + 1, filled)
    ELSE IncludeRelations(view, recv, include, order, fault, k + 1,
            AddRelation(filled, RelationField(recv, Relations[k]),
                        IncludeRelation(view, recv, Relations[k], filled.row.id,
                                        order, fault)))

\* a loop that leaves out the includes entry of a row without included objects
AppendFilled_Dropping(out, filled) ==
    IF filled.err # NoErr THEN [rows |-> <<>>, includes |-> <<>>, err |-> filled.err]
    ELSE [rows |-> Append(out.rows, filled.row),
          includes |-> IF filled.include = <<>> THEN out.includes
                       ELSE Append(out.includes, filled.include),
          err |-> NoErr]
\* responseArray and includes after one more parent row
AppendFilled(out, filled) ==
    IF filled.err # NoErr THEN [rows |-> <<>>, includes |-> <<>>, err |-> filled.err]
    ELSE [rows |-> Append(out.rows, filled.row),
          includes |-> Append(out.includes, filled.include), err |-> NoErr]

\* for _, row := range responseArray
RECURSIVE FillRows(_, _, _, _, _, _, _, _, _)
FillRows(view, recv, typeName, ids, include, order, fault, k, out) ==
    IF out.err # NoErr \/ k > Len(ids) THEN out
    ELSE FillRows(view, recv, typeName, ids, include, order, fault, k + 1,
            AppendFilled(out,
                IncludeRelations(view, recv, include, order, fault, 1,
                    ForeignKey(view, recv, typeName, ids[k], include, fault))))

\* dbResource.ResultToArrayOfMap(rows, Cruds[typeName] column map, include):
\* the rows are tagged with dbResource.model.GetName(), the relations are
\* those of dbResource.tableInfo; a failed scan of the parent rows is returned
ResultToArrayOfMap(view, recv, typeName, ids, include, order, fault) ==
    IF fault = Fault("main", "scan")
    THEN [rows |-> <<>>, includes |-> <<>>, err |-> ErrDb]
    ELSE FillRows(view, recv, typeName, ids, include, order, fault, 1,
                  [rows |-> <<>>, includes |-> <<>>, err |-> NoErr])

\* the converted rows handed back through the deferred Close calls
Converted(r, stmt, res) == Deferred(r.rows, r.includes, r.err, stmt, res)

\* fmt.Errorf("897 no such entity [%v][%v]", typeName, referenceId), and 923
\* for an id
ErrNoSuchEntity(code, typeName, key) ==
    code \o " no such entity [" \o typeName \o "][" \o key \o "]"

\* fmt.Errorf("no such object 1161 [%v][%v]", typeName, referenceId)
ErrNoSuchObject(typeName, referenceId) ==
    "no such object 1161 [" \o typeName \o "][" \o referenceId \o "]"

\* errors.New(fmt.Sprintf("no [%v=%v] object found", column, val))
ErrNoObjectFound(column, val) == "no [" \o column \o "=" \o val \o "] object found"

\* GetRowsByWhereClause(typeName, include, goqu.Ex{"reference_id": ref}):
\* each Close is deferred after its handle's error was looked at, and what
\* ResultToArrayOfMap returned is returned as it is
GetRowsByWhereClause(view, recv, typeName, ref, include, order, fault) ==
    IF Preparex(fault, "main") = "nil" THEN Loaded(<<>>, <<>>, ErrDb, "nil", "nil")
    ELSE IF Queryx(fault, "main") = "nil"
    THEN Deferred(<<>>, <<>>, ErrDb, Close("open"), "nil")
    ELSE Converted(ResultToArrayOfMap(view, recv, typeName,
                        InOrder(IdsByReference(view, typeName, ref), order),
                        include, order, fault),
                   Close("open"), Close("open"))

\* A variant of FirstRow that reports no error when no row came back.
FirstRow_Silent(r, notFound) ==
    IF r.err # NoErr THEN [rows |-> <<>>, includes |-> <<>>, err |-> r.err]
    ELSE IF Len(r.rows) < 1 THEN [rows |-> <<>>, includes |-> <<>>, err |-> NoErr]
    ELSE [rows |-> <<r.rows[1]>>, includes |-> r.includes[1], err |-> NoErr]
\* m := resultRows[0]; n := includeRows[0] of what ResultToArrayOfMap
\* returned, or its error, or the error for no row (a nil row is the empty
\* sequence)
FirstRow(r, notFound) ==
    IF r.err # NoErr THEN [rows |-> <<>>, includes |-> <<>>, err |-> r.err]
    ELSE IF Len(r.rows) < 1 THEN [rows |-> <<>>, includes |-> <<>>, err |-> notFound]
    ELSE [rows |-> <<r.rows[1]>>, includes |-> r.includes[1], err |-> NoErr]

\* GetSingleRowByReferenceId(typeName, referenceId, include)
GetSingleRowByReferenceId(view, recv, typeName, ref, include, order, fault) ==
    IF Preparex(fault, "main") = "nil" THEN Loaded(<<>>, <<>>, ErrDb, "nil", "nil")
    ELSE IF Queryx(fault, "main") = "nil"
    THEN Deferred(<<>>, <<>>, ErrDb, Close("open"), "nil")
    ELSE Converted(FirstRow(ResultToArrayOfMap(view, recv, typeName,
                                InOrder(IdsByReference(view, typeName, ref), order),
                                include, order, fault),
                            ErrNoSuchEntity("897", typeName, ref)),
                   Close("open"), Close("open"))

\* WHERE id = ?
IdsById(view, typeName, id) == IF id \in DOMAIN view[typeName] THEN <<id>> ELSE <<>>

\* GetSingleRowById(typeName, id, include): stmt1.Close is deferred before
\* the error of Preparex is looked at, the error of Queryx is not looked at
\* and the nil rows go to ResultToArrayOfMap, which calls rows.Columns()
GetSingleRowById(view, recv, typeName, id, include, order, fault) ==
    IF Preparex(fault, "main") = "nil"
    THEN Deferred(<<>>, <<>>, ErrDb, Close("nil"), "nil")
    ELSE IF Queryx(fault, "main") = "nil"
    THEN Deferred(<<>>, <<>>, ErrNilPointer, Close("open"), Close("nil"))
    ELSE Converted(FirstRow(ResultToArrayOfMap(view, recv, typeName,
                                IdsById(view, typeName, id), include, order, fault),
                            ErrNoSuchEntity("923", typeName, ToString(id))),
                   Close("open"), Close("open"))

\* if len(m) == 0 { return nil, errors.New(...) }; return m[0], err
FirstOrNotFound(r, notFound) ==
    IF r.err = ErrNilPointer THEN r
    ELSE IF Len(r.rows) = 0 THEN [rows |-> <<>>, includes |-> <<>>, err |-> notFound]
    ELSE [rows |-> <<r.rows[1]>>, includes |-> <<>>, err |-> r.err]

\* GetObjectByWhereClause(typeName, "reference_id", ref): both Close calls
\* are deferred before the errors are looked at
GetObjectByWhereClause(view, recv, typeName, ref, order, fault) ==
    IF Preparex(fault, "main") = "nil"
    THEN Deferred(<<>>, <<>>, ErrDb, Close("nil"), "nil")
    ELSE IF Queryx(fault, "main") = "nil"
    THEN Deferred(<<>>, <<>>, ErrDb, Close("open"), Close("nil"))
    ELSE Converted(FirstOrNotFound(ResultToArrayOfMap(view, recv, typeName,
                                        InOrder(IdsByReference(view, typeName, ref), order),
                                        {}, order, fault),
                                   ErrNoObjectFound("reference_id", ref)),
                   Close("open"), Close("open"))

\* GetAllObjects(typeName): both Close calls are deferred before the errors
\* are looked at
GetAllObjects(view, recv, typeName, order, fault) ==
    IF Preparex(fault, "main") = "nil"
    THEN Deferred(<<>>, <<>>, ErrDb, Close("nil"), "nil")
    ELSE IF Queryx(fault, "main") = "nil"
    THEN Deferred(<<>>, <<>>, ErrDb, Close("open"), Close("nil"))
    ELSE Converted(ResultToArrayOfMap(view, recv, typeName,
                        InOrder(DOMAIN view[typeName], order), {}, order, fault),
                   Close("open"), Close("open"))

\* GetReferenceIdToObject(typeName, referenceId) with the store disabled:
\* both Close calls are deferred before the errors are looked at
GetReferenceIdToObject(view, recv, typeName, ref, order, fault) ==
    IF Preparex(fault, "main") = "nil"
    THEN Deferred(<<>>, <<>>, ErrDb, Close("nil"), "nil")
    ELSE IF Queryx(fault, "main") = "nil"
    THEN Deferred(<<>>, <<>>, ErrDb, Close("open"), Close("nil"))
    ELSE Converted(FirstRow(ResultToArrayOfMap(view, recv, typeName,
                                InOrder(IdsByReference(view, typeName, ref), order),
                                {}, order, fault),
                            ErrNoSuchObject(typeName, ref)),
                   Close("open"), Close("open"))

\* the string a failed Scan leaves in its target
Scanned(value, fault) == IF fault = Fault("main", "scan") THEN "" ELSE value

\* GetUserMembersByGroupName(groupName): no error is returned; the rows are
\* read to the end, which closes them
GetUserMembersByGroupName_Handles(view, groupName, fault) ==
    IF Preparex(fault, "main") = "nil" THEN Loaded(<<>>, <<>>, NoErr, "nil", "nil")
    ELSE IF Queryx(fault, "main") = "nil"
    THEN Deferred(<<>>, <<>>, NoErr, Close("open"), "nil")
    ELSE Deferred([k \in 1..Len(SortedSeq(GetUserMembersByGroupName(view, groupName))) |->
                      Scanned(view[USER_ACCOUNT_TABLE_NAME][
                                  view[USER_ACCOUNT_LINK_TABLE][
                                      SortedSeq(GetUserMembersByGroupName(view, groupName))[k]
                                  ].object_id].reference_id, fault)],
                  <<>>, NoErr, Close("open"), Close("open"))

\* GetReferenceIdListToIdList(typeName, referenceIds): the (reference id, id)
\* pairs; the rows are read to the end, which closes them, and the error of
\* the last Scan is returned
GetReferenceIdListToIdList(view, typeName, refs, fault) ==
    IF Preparex(fault, "main") = "nil" THEN Loaded(<<>>, <<>>, ErrDb, "nil", "nil")
    ELSE IF Queryx(fault, "main") = "nil"
    THEN Deferred(<<>>, <<>>, ErrDb, Close("open"), "nil")
    ELSE IF fault = Fault("main", "scan")
    THEN Deferred(IF \E i \in DOMAIN view[typeName] : view[typeName][i].reference_id \in refs
                  THEN <<[reference_id |-> "", id |-> 0]>> ELSE <<>>,
                  <<>>,
                  IF \E i \in DOMAIN view[typeName] : view[typeName][i].reference_id \in refs
                  THEN ErrDb ELSE NoErr,
                  Close("open"), Close("open"))
    ELSE Deferred([k \in 1..Len(SortedSeq({i \in DOMAIN view[typeName] :
                                    view[typeName][i].reference_id \in refs})) |->
                      [reference_id |-> view[typeName][SortedSeq({i \in DOMAIN view[typeName] :
                                    view[typeName][i].reference_id \in refs})[k]].reference_id,
                       id |-> SortedSeq({i \in DOMAIN view[typeName] :
                                    view[typeName][i].reference_id \in refs})[k]]],
                  <<>>, NoErr, Close("open"), Close("open"))

-----------------------------------------------------------------------------
(* SpecLoad: one loader call at a time, with at most one failing database step *)

\* the resources a loader is called on and the types it is asked for
LoadTypes == {"world", "usergroup", "action"}

LoadReferenceIds == {"w-1", "g-2", "a-1", "none"}

LoadIds == 1..(MaxId + 1)

LoadIncludes ==
    {{}, {"user_account_id"}, {"usergroup_id"}, {"world_id"},
     {"user_account_id", "usergroup_id", "action_id"}, {"*"}}

LoadGroupNames == {"administrators", "users"}

\* a call returns to a caller that holds no earlier result: its arguments,
\* what it returned (out), and what GetRowsByWhereClause returns for the
\* same arguments (rows)
Return(fn, recv, typeName, id, ref, include, order, fault, out, rows) ==
    /\ last = NoCall
    /\ last' = [op |-> "Load", fn |-> fn, recv |-> recv, type |-> typeName, id |-> id,
                ref |-> ref, include |-> include, order |-> order, fault |-> fault,
                out |-> out, rows |-> rows]
    /\ UNCHANGED <<db, cache, OlricCache, adminVars, gate>>

CallGetRowsByWhereClause(recv, typeName, ref, include, order, fault) ==
    Return("GetRowsByWhereClause", recv, typeName, 0, ref, include, order, fault,
           GetRowsByWhereClause(db, recv, typeName, ref, include, order, fault),
           GetRowsByWhereClause(db, recv, typeName, ref, include, order, fault))

CallGetSingleRowByReferenceId(recv, typeName, ref, include, order, fault) ==
    Return("GetSingleRowByReferenceId", recv, typeName, 0, ref, include, order, fault,
           GetSingleRowByReferenceId(db, recv, typeName, ref, include, order, fault),
           GetRowsByWhereClause(db, recv, typeName, ref, include, order, fault))

CallGetSingleRowById(recv, typeName, id, include, order, fault) ==
    Return("GetSingleRowById", recv, typeName, id, "", include, order, fault,
           GetSingleRowById(db, recv, typeName, id, include, order, fault),
           Loaded(<<>>, <<>>, NoErr, "nil", "nil"))

CallGetObjectByWhereClause(recv, typeName, ref, order, fault) ==
    Return("GetObjectByWhereClause", recv, typeName, 0, ref, {}, order, fault,
           GetObjectByWhereClause(db, recv, typeName, ref, order, fault),
           Loaded(<<>>, <<>>, NoErr, "nil", "nil"))

CallGetIdToObject_Handles(recv, typeName, id, fault) ==
    Return("GetIdToObject", recv, typeName, id, "", {}, "asc", fault,
           GetIdToObject_Handles(db, recv, typeName, id, fault, "main"),
           Loaded(<<>>, <<>>, NoErr, "nil", "nil"))

CallGetAllObjects(recv, typeName, order, fault) ==
    Return("GetAllObjects", recv, typeName, 0, "", {}, order, fault,
           GetAllObjects(db, recv, typeName, order, fault),
           Loaded(<<>>, <<>>, NoErr, "nil", "nil"))

CallGetAllObjectsWithWhere(recv, typeName, id, order, fault) ==
    Return("GetAllObjectsWithWhere", recv, typeName, id, "", {}, order, fault,
           GetAllObjectsWithWhere_Handles(db, typeName, <<id, 1>>, order, fault, "main"),
           Loaded(<<>>, <<>>, NoErr, "nil", "nil"))

CallGetReferenceIdToObject(recv, typeName, ref, order, fault) ==
    Return("GetReferenceIdToObject", recv, typeName, 0, ref, {}, order, fault,
           GetReferenceIdToObject(db, recv, typeName, ref, order, fault),
           Loaded(<<>>, <<>>, NoErr, "nil", "nil"))

CallGetUserMembersByGroupName(groupName, fault) ==
    Return("GetUserMembersByGroupName", "usergroup", "usergroup", 0, groupName, {},
           "asc", fault,
           GetUserMembersByGroupName_Handles(db, groupName, fault),
           Loaded(<<>>, <<>>, NoErr, "nil", "nil"))

CallGetReferenceIdListToIdList(recv, typeName, ref, fault) ==
    Return("GetReferenceIdListToIdList", recv, typeName, 0, ref, {}, "asc", fault,
           GetReferenceIdListToIdList(db, typeName, {ref, "w-1"}, fault),
           Loaded(<<>>, <<>>, NoErr, "nil", "nil"))

\* the caller drops the result it holds
Discard ==
    /\ last # NoCall
    /\ last' = NoCall
    /\ UNCHANGED <<db, cache, OlricCache, adminVars, gate>>

InitLoad ==
    /\ InitBase
    /\ OlricCache = FALSE
    /\ gate = NoGate

NextLoad ==
    \/ Discard
    \/ /\ last = NoCall
       /\ \E recv \in LoadTypes, typeName \in LoadTypes, fault \in Faults, order \in Orders :
             \/ \E ref \in LoadReferenceIds, include \in LoadIncludes :
                   \/ CallGetRowsByWhereClause(recv, typeName, ref, include, order, fault)
                   \/ CallGetSingleRowByReferenceId(recv, typeName, ref, include, order, fault)
             \/ \E id \in LoadIds, include \in LoadIncludes :
                   CallGetSingleRowById(recv, typeName, id, include, order, fault)
             \/ \E ref \in LoadReferenceIds :
                   \/ CallGetObjectByWhereClause(recv, typeName, ref, order, fault)
                   \/ CallGetReferenceIdToObject(recv, typeName, ref, order, fault)
                   \/ CallGetReferenceIdListToIdList(recv, typeName, ref, fault)
             \/ \E id \in LoadIds :
                   \/ CallGetIdToObject_Handles(recv, typeName, id, fault)
                   \/ CallGetAllObjectsWithWhere(recv, typeName, id, order, fault)
             \/ CallGetAllObjects(recv, typeName, order, fault)
             \/ \E groupName \in LoadGroupNames :
                   CallGetUserMembersByGroupName(groupName, fault)

SpecLoad == InitLoad /\ [][NextLoad]_vars

-----------------------------------------------------------------------------
(* SpecAlign: ResultToArrayOfMap on the rows of a query that selects any
   number of rows of a table, and GetSingleRowByReferenceId on top of it *)

\* a query result is converted and returned to a caller that holds no
\* earlier result
Converts(fn, recv, ids, ref, include, order, fault, out) ==
    /\ last = NoCall
    /\ last' = [op |-> "Convert", fn |-> fn, recv |-> recv, ids |-> ids, ref |-> ref,
                include |-> include, order |-> order, fault |-> fault, out |-> out]
    /\ UNCHANGED <<db, cache, OlricCache, adminVars, gate>>

CallResultToArrayOfMap(recv, S, include, order, fault) ==
    Converts("ResultToArrayOfMap", recv, InOrder(S, order), "", include, order, fault,
             ResultToArrayOfMap(db, recv, recv, InOrder(S, order), include, order, fault))

CallFirstRow(recv, ref, include, order, fault) ==
    Converts("GetSingleRowByReferenceId", recv, <<>>, ref, include, order, fault,
             GetSingleRowByReferenceId(db, recv, recv, ref, include, order, fault))

InitAlign ==
    /\ InitBase
    /\ OlricCache = FALSE
    /\ gate = NoGate

NextAlign ==
    \/ Discard
    \/ /\ last = NoCall
       /\ \E recv \in LoadTypes, include \in LoadIncludes, order \in Orders, fault \in Faults :
             \/ \E S \in SUBSET (DOMAIN db[recv]) :
                   CallResultToArrayOfMap(recv, S, include, order, fault)
             \/ \E ref \in LoadReferenceIds : CallFirstRow(recv, ref, include, order, fault)

SpecAlign == InitAlign /\ [][NextAlign]_vars

-----------------------------------------------------------------------------
(* SpecHandle: concurrent calls of GetObjectPermissionByWhereClause at their
   first two lines,
       if OlricCache == nil {
           OlricCache, _ = dbResource.OlricDb.NewDMap("default-cache")
       }
   In this specification OlricCache holds the identity of the *olric.DMap:
   0 is nil and NewDMap returns the handles 1, 2, ...  hist counts the
   assignments of a non-nil handle (assigned), remembers whether an
   assignment overwrote a non-nil handle (replaced), and holds the value each
   caller got from NewDMap (made). *)

\* the number of handles NewDMap hands out before it only fails
MaxHandles == 3

\* if OlricCache == nil, read without synchronisation
HandleCheck(p) ==
    /\ pc[p] = "idle"
    /\ pc' = [pc EXCEPT ![p] = IF OlricCache = 0 THEN "nil" ELSE "lookup"]
    /\ UNCHANGED <<db, cache, OlricCache, last, userId, txlog, result, hist, frame, gate>>

\* dbResource.OlricDb.NewDMap("default-cache"): a new handle, or nil and an
\* error that is dropped
NewDMap(p) ==
    /\ pc[p] = "nil"
    /\ \/ /\ hist.handles < MaxHandles
          /\ hist' = [hist EXCEPT !.handles = @ + 1, !.made[p] = hist.handles + 1]
       \/ hist' = [hist EXCEPT !.made[p] = 0]
    /\ pc' = [pc EXCEPT ![p] = "made"]
    /\ UNCHANGED <<db, cache, OlricCache, last, userId, txlog, result, frame, gate>>

\* OlricCache, _ = ...
HandleAssign(p) ==
    /\ pc[p] = "made"
    /\ OlricCache' = hist.made[p]
    /\ hist' = [hist EXCEPT !.assigned = IF hist.made[p] # 0 THEN Min({@ + 1, MaxHandles}) ELSE @,
                            !.replaced = @ \/ OlricCache # 0]
    /\ pc' = [pc EXCEPT ![p] = "lookup"]
    /\ UNCHANGED <<db, cache, last, userId, txlog, result, frame, gate>>

\* the rest of the lookup, which uses the handle it finds
HandleLookup(p) ==
    /\ pc[p] = "lookup"
    /\ pc' = [pc EXCEPT ![p] = "idle"]
    /\ last' = [op |-> "GetObjectPermissionByWhereClause", caller |-> p, handle |-> OlricCache]
    /\ UNCHANGED <<db, cache, OlricCache, userId, txlog, result, hist, frame, gate>>

InitHandle ==
    /\ db = SeedDb
    /\ cache = NoCache
    /\ OlricCache = 0
    /\ last = NoCall
    /\ pc = [p \in Callers |-> "idle"]
    /\ userId = [p \in Callers |-> 0]
    /\ txlog = [p \in Callers |-> <<>>]
    /\ result = [p \in Callers |-> "none"]
    /\ hist = [handles |-> 0, assigned |-> 0, replaced |-> FALSE,
               made |-> [p \in Callers |-> 0]]
    /\ frame = [p \in Callers |-> NoFrame]
    /\ gate = NoGate

NextHandle ==
    \E p \in Callers :
        \/ HandleCheck(p)
        \/ NewDMap(p)
        \/ HandleAssign(p)
        \/ HandleLookup(p)

SpecHandle == InitHandle /\ [][NextHandle]_vars

-----------------------------------------------------------------------------
(* SpecObject: the object permission lookups with the store disabled, for
   rows that exist and for keys that match no row *)

\* GetObjectPermissionById(objectType, id): the error of MapScan is logged,
\* and with no row resultObject["id"].(int64) is asserted on a nil value
GetObjectPermissionById(h, c, view, objectType, id) ==
    IF objectType \notin DOMAIN view \/ id \notin DOMAIN view[objectType]
    THEN RowPanic(c)
    ELSE Returned(ScanRow(FALSE, h, c, view, objectType, id))

\* GetObjectPermissionByIdWithTransaction(objectType, id, transaction)
GetObjectPermissionByIdWithTransaction(h, c, view, objectType, id) ==
    IF objectType \notin DOMAIN view \/ id \notin DOMAIN view[objectType]
    THEN RowPanic(c)
    ELSE Returned(ScanRow(TRUE, h, c, view, objectType, id))

\* the error of a lookup whose model has an error only on some paths
ErrOf(r) == IF "err" \in DOMAIN r THEN r.err ELSE NoErr

ObjectTypes == {"world", "action", "usergroup", "blog"}

ObjectIds == 1..(MaxId + 2)

ObjectReferenceIds == {"w-1", "w-2", "a-2", "g-1", "b-1", "none"}

\* a permission lookup returns: what it was asked, whether its key matches a
\* row, and what it returned
ReturnPermission(fn, objectType, id, ref, missing, r) ==
    /\ last' = [op |-> "ObjectPermission", fn |-> fn, type |-> objectType, id |-> id,
                ref |-> ref, missing |-> missing, val |-> r.val, err |-> ErrOf(r)]
    /\ cache' = r.cache
    /\ UNCHANGED <<db, OlricCache, adminVars, gate>>

CallGetObjectPermissionByReferenceId(objectType, ref) ==
    ReturnPermission("GetObjectPermissionByReferenceId", objectType, 0, ref,
                     RefIds(db, objectType, ref) = {},
                     GetObjectPermissionByReferenceId(OlricCache, cache, db, objectType, ref))

CallGetObjectPermissionByReferenceIdWithTransaction(objectType, ref) ==
    ReturnPermission("GetObjectPermissionByReferenceIdWithTransaction", objectType, 0, ref,
                     RefIds(db, objectType, ref) = {},
                     GetObjectPermissionByReferenceIdWithTransaction(OlricCache, cache, db,
                                                                     objectType, ref))

CallGetObjectPermissionById(objectType, id) ==
    ReturnPermission("GetObjectPermissionById", objectType, id, "",
                     id \notin DOMAIN db[objectType],
                     GetObjectPermissionById(OlricCache, cache, db, objectType, id))

CallGetObjectPermissionByIdWithTransaction(objectType, id) ==
    ReturnPermission("GetObjectPermissionByIdWithTransaction", objectType, id, "",
                     id \notin DOMAIN db[objectType],
                     GetObjectPermissionByIdWithTransaction(OlricCache, cache, db,
                                                            objectType, id))

CallGetObjectPermissionByWhereClause(objectType, ref) ==
    ReturnPermission("GetObjectPermissionByWhereClause", objectType, 0, ref,
                     IdsWhere(db, objectType, "reference_id", ref) = {},
                     GetObjectPermissionByWhereClause(OlricCache, cache, db, objectType,
                                                      "reference_id", ref))

CallGetObjectPermissionByWhereClauseWithTransaction(objectType, ref) ==
    ReturnPermission("GetObjectPermissionByWhereClauseWithTransaction", objectType, 0, ref,
                     IdsWhere(db, objectType, "reference_id", ref) = {},
                     GetObjectPermissionByWhereClauseWithTransaction(OlricCache, cache, db,
                                                      objectType, "reference_id", ref))

InitObject ==
    /\ InitBase
    /\ OlricCache = FALSE
    /\ gate = NoGate

NextObject ==
    \/ \E objectType \in ObjectTypes, ref \in ObjectReferenceIds :
            CallGetObjectPermissionByReferenceId(objectType, ref)
    \/ \E objectType \in ObjectTypes, ref \in ObjectReferenceIds :
            CallGetObjectPermissionByReferenceIdWithTransaction(objectType, ref)
    \/ \E objectType \in ObjectTypes, id \in ObjectIds :
            CallGetObjectPermissionById(objectType, id)
    \/ \E objectType \in ObjectTypes, id \in ObjectIds :
            CallGetObjectPermissionByIdWithTransaction(objectType, id)
    \/ \E objectType \in ObjectTypes, ref \in ObjectReferenceIds :
            CallGetObjectPermissionByWhereClause(objectType, ref)
    \/ \E objectType \in ObjectTypes, ref \in ObjectReferenceIds :
            CallGetObjectPermissionByWhereClauseWithTransaction(objectType, ref)

SpecObject == InitObject /\ [][NextObject]_vars

-----------------------------------------------------------------------------
(* SpecKeys: the permission lookups by where clause for triples whose texts
   run together *)

KeyTypes == {"user_account", "user", "world"}

KeyColumns == {"id", "account_id", "table_name"}

KeyValues == {"1", "blog"}

ReturnWhere(fn, objectType, colName, colValue, key, r) ==
    /\ Cardinality(DOMAIN cache) <= MaxEntries + MaxExtra
    /\ last' = [op |-> "Where", fn |-> fn, type |-> objectType, col |-> colName,
                value |-> colValue, key |-> key, val |-> r.val, err |-> ErrOf(r),
                hit |-> r.hit]
    /\ cache' = r.cache
    /\ UNCHANGED <<db, OlricCache, adminVars, gate>>

CallWhere(objectType, colName, colValue) ==
    ReturnWhere("GetObjectPermissionByWhereClause", objectType, colName, colValue,
                PermissionKey(objectType, colName, colValue),
                GetObjectPermissionByWhereClause(OlricCache, cache, db, objectType,
                                                 colName, colValue))

CallWhereWithTransaction(objectType, colName, colValue) ==
    ReturnWhere("GetObjectPermissionByWhereClauseWithTransaction", objectType, colName,
                colValue, PermissionKeyWithTransaction(objectType, colName, colValue),
                GetObjectPermissionByWhereClauseWithTransaction(OlricCache, cache, db,
                                                    objectType, colName, colValue))

InitKeys ==
    /\ InitBase
    /\ OlricCache = TRUE
    /\ gate = NoGate

NextKeys ==
    \/ \E objectType \in KeyTypes, colName \in KeyColumns, colValue \in KeyValues :
            CallWhere(objectType, colName, colValue)
    \/ \E objectType \in KeyTypes, colName \in KeyColumns, colValue \in KeyValues :
            CallWhereWithTransaction(objectType, colName, colValue)
    \/ \E d \in {cache[k].ttl : k \in DOMAIN cache} : Elapse(d)

SpecKeys == InitKeys /\ [][NextKeys]_vars

-----------------------------------------------------------------------------
(* DaptinReferenceId (package daptinid): the 16-byte reference id and its
   binary conversions *)

\* type DaptinReferenceId [16]byte
RefLen == 16

\* var NullReferenceId DaptinReferenceId: the zero value of the array
NullReferenceId == [i \in 1..RefLen |-> 0]

ErrConversion == "Conversion failed"

ErrDataLength == "invalid data length: expected exactly 16 bytes"

ErrSliceLength == "panic: cannot convert slice to array"

\* what a method leaves in its receiver, with the bytes and the error it returns
RefResult(dr, data, err) == [dr |-> dr, data |-> data, err |-> err]

\* d.MarshalBinary(): return d[:], nil
MarshalBinary(d) == RefResult(d, [i \in 1..Len(d) |-> d[i]], NoErr)

\* a variant of UnmarshalBinary without the length check
UnmarshalBinary_Unchecked(d, data) ==
    RefResult([i \in 1..RefLen |-> IF i <= Len(data) THEN data[i] ELSE d[i]], <<>>, NoErr)
\* d.UnmarshalBinary(data): copy(d[:], data) after the length check
UnmarshalBinary(d, data) ==
    IF Len(data) # RefLen THEN RefResult(d, <<>>, ErrDataLength)
    ELSE RefResult([i \in 1..RefLen |-> IF i <= Len(data) THEN data[i] ELSE d[i]], <<>>,
                   NoErr)

\* a value handed to Scan: a []uint8 with its bytes, or a value of another type
Bytes(b) == [t |-> "[]uint8", b |-> b]

NotBytes(t) == [t |-> t, b |-> <<>>]

\* dr.Scan(value): *dr = DaptinReferenceId(asBytes) takes the first 16 bytes
\* and panics on a shorter slice
Scan(dr, value) ==
    IF value.t # "[]uint8" THEN RefResult(dr, <<>>, ErrConversion)
    ELSE IF Len(value.b) < RefLen THEN RefResult(dr, <<>>, ErrSliceLength)
    ELSE RefResult([i \in 1..RefLen |-> value.b[i]], <<>>, NoErr)

-----------------------------------------------------------------------------
(* SpecRef: one DaptinReferenceId value that is scanned, unmarshalled and
   copied through its binary form *)

\* the reference ids the calls are made with
RefIdValues ==
    {NullReferenceId,
     [i \in 1..RefLen |-> 255],
     [i \in 1..RefLen |-> i],
     [i \in 1..RefLen |-> IF i = 1 THEN 1 ELSE 0],
     [i \in 1..RefLen |-> IF i = RefLen THEN 128 ELSE 0]}

\* byte slices of the right length, one byte short and one byte long
RefData ==
    RefIdValues
    \cup {SubSeq(d, 1, RefLen - 1) : d \in RefIdValues}
    \cup {Append(d, 7) : d \in RefIdValues}
    \cup {<<>>}

ScanValues == {Bytes(b) : b \in RefData} \cup {NotBytes(t) : t \in {"nil", "string", "int64"}}

\* the receiver after a call, with the call, its argument and its result
RefCall(fn, prev, src, arg, r) ==
    /\ last' = [op |-> "Ref", fn |-> fn, prev |-> prev, src |-> src, arg |-> arg,
                dr |-> r.dr, data |-> r.data, err |-> r.err]
    /\ UNCHANGED <<db, cache, OlricCache, adminVars, gate>>

CallScan(value) == RefCall("Scan", last.dr, last.dr, value, Scan(last.dr, value))

CallUnmarshalBinary(data) ==
    RefCall("UnmarshalBinary", last.dr, last.dr, Bytes(data), UnmarshalBinary(last.dr, data))

CallMarshalBinary ==
    RefCall("MarshalBinary", last.dr, last.dr, NotBytes("nil"), MarshalBinary(last.dr))

\* var copied DaptinReferenceId; copied.UnmarshalBinary(d.MarshalBinary())
CallRoundTrip(d) ==
    RefCall("RoundTrip", NullReferenceId, d, Bytes(MarshalBinary(d).data),
            UnmarshalBinary(NullReferenceId, MarshalBinary(d).data))

InitRef ==
    /\ db = SeedDb
    /\ cache = NoCache
    /\ last = [op |-> "Ref", fn |-> "var", prev |-> NullReferenceId, src |-> NullReferenceId,
               arg |-> NotBytes("nil"), dr |-> NullReferenceId, data |-> <<>>, err |-> NoErr]
    /\ pc = [p \in Callers |-> "idle"]
    /\ userId = [p \in Callers |-> 0]
    /\ txlog = [p \in Callers |-> <<>>]
    /\ result = [p \in Callers |-> "none"]
    /\ hist = NoHist
    /\ frame = [p \in Callers |-> NoFrame]
    /\ OlricCache = FALSE
    /\ gate = NoGate

NextRef ==
    \/ \E value \in ScanValues : CallScan(value)
    \/ \E data \in RefData : CallUnmarshalBinary(data)
    \/ CallMarshalBinary
    \/ \E d \in RefIdValues : CallRoundTrip(d)

SpecRef == InitRef /\ [][NextRef]_vars

-----------------------------------------------------------------------------
(* password.reset.verify (package resource): DoAction of
   generatePasswordResetVerifyActionPerformer.  A token is written
   "b64:<text>" when it is the base64 encoding of <text>, and the text of a
   JWT is written "<alg>.<signing key>.<fresh or expired>" *)

\* base64.StdEncoding.DecodeString(s)
DecodeString(s) ==
    IF BeginsWith(s, "b64:") THEN [val |-> SubSeq(s, 5, Len(s)), err |-> NoErr]
    ELSE [val |-> "", err |-> "illegal base64 data"]

\* jwt.Parse(text, keyFunc) with keyFunc returning secret: err == nil and
\* parsedToken.Valid exactly for an HMAC token signed with secret that has
\* not expired
JwtValid(text, secret) == text = "HS256." \o secret \o ".fresh"

\* NewActionResponse("client.notify", attrs)
Notify(type, title, message) ==
    [ResponseType |-> "client.notify", type |-> type, title |-> title, message |-> message]

\* GetRowsByWhereClause("user_account", nil, transaction, goqu.Ex{"email": email}):
\* the rows whose email is the value; a nil value selects email IS NULL
ExistingUsers(view, email, fault) ==
    IF fault # NoFault THEN [rows |-> {}, err |-> ErrDb]
    ELSE [rows |-> {i \in DOMAIN view[USER_ACCOUNT_TABLE_NAME] :
                        email.t = "string" /\ view[USER_ACCOUNT_TABLE_NAME][i].name = email.s},
          err |-> NoErr]

\* what DoAction returns: responder, responses, errors; panic is the run-time
\* panic that ends the call instead
Performed(responder, responses, errs, panic) ==
    [responder |-> responder, responses |-> responses, errs |-> errs, panic |-> panic]

\* the response for a token that was base64-decoded to tokenString
VerifyToken(tokenString, secret) ==
    IF tokenString.err # NoErr THEN Notify("error", "Failed", "Invalid token")
    ELSE IF ~JwtValid(tokenString.val, secret) THEN Notify("failed", "Failed", "Token has expired")
    ELSE Notify("success", "Success", "Logged in")

\* generatePasswordResetVerifyActionPerformer.DoAction(request, inFieldMap,
\* transaction) for inFieldMap = {email, token} on a performer with d.secret
VerifyDoAction(view, secret, email, token, fault) ==
    IF ExistingUsers(view, email, fault).err # NoErr
       \/ ExistingUsers(view, email, fault).rows = {}
    THEN Performed("nil", <<Notify("error", "Failed", "No Such account")>>, "nil", FALSE)
    ELSE IF token.t # "string"
    THEN \* token.(string)
         Performed("nil", <<>>, "nil", TRUE)
    ELSE Performed("nil", <<VerifyToken(DecodeString(token.s), secret)>>, "nil", FALSE)

-----------------------------------------------------------------------------
(* SpecVerify: one password.reset.verify action at a time *)

VerifySecrets == {"s1", "s2"}

VerifyEmails == {Absent, Nil, Int64(1), Str("a@x"), Str("b@x"), Str("zz@x")}

VerifyTokens ==
    {Absent, Nil, Int64(1), Str(""), Str("not base64"), Str("b64:"), Str("b64:garbage"),
     Str("b64:HS256.s1.fresh"), Str("b64:HS256.s1.expired"), Str("b64:HS256.s2.fresh"),
     Str("b64:none..fresh")}

CallVerifyDoAction(secret, email, token, fault) ==
    /\ last' = [op |-> "DoAction", fn |-> "password.reset.verify", secret |-> secret,
                email |-> email, token |-> token, fault |-> fault,
                out |-> VerifyDoAction(db, secret, email, token, fault), before |-> db]
    /\ UNCHANGED <<db, cache, OlricCache, adminVars, gate>>

InitVerify ==
    /\ InitBase
    /\ OlricCache = FALSE
    /\ gate = NoGate

NextVerify ==
    \/ Discard
    \/ /\ last = NoCall
       /\ \E secret \in VerifySecrets, email \in VerifyEmails, token \in VerifyTokens,
             fault \in {NoFault, Fault("main", "execute")} :
                CallVerifyDoAction(secret, email, token, fault)

SpecVerify == InitVerify /\ [][NextVerify]_vars

-----------------------------------------------------------------------------
(* otp.generate: DoAction of otpGenerateActionPerformer *)

\* a row of user_otp_account; otp_of_account is the id of the account
OtpRow(ref, account, mobile, verified, secret) ==
    [reference_id |-> ref, otp_of_account |-> account, mobile_number |-> mobile,
     verified |-> verified, otp_secret |-> secret]

\* the points at which a call to the database or to the cipher can fail
OtpFaults == {NoFault, "email", "otp", "account", "create", "update", "decrypt"}

\* what DoAction returns: responder, responses, errors; panic is the run-time
\* panic that ends the call instead; db is the database it leaves
OtpReturn(responder, responses, errs, panic, view) ==
    [responder |-> responder, responses |-> responses, errs |-> errs, panic |-> panic,
     db |-> view]

\* the account and the profile found so far, and the value of err
OtpFound(account, profile, err) ==
    [done |-> FALSE, account |-> account, profile |-> profile, err |-> err]

\* an early return of DoAction
OtpDone(out) == [done |-> TRUE, out |-> out]

\* GetUserAccountRowByEmail(email, transaction): the id of the first row,
\* 0 for a nil row
UserAccountByEmail(view, email, fault) ==
    IF fault = "email" THEN [id |-> 0, err |-> ErrDb]
    ELSE IF {i \in DOMAIN view["user_account"] : view["user_account"][i].name = email} = {}
    THEN [id |-> 0, err |-> "no such user"]
    ELSE [id |-> Min({i \in DOMAIN view["user_account"] : view["user_account"][i].name = email}),
          err |-> NoErr]

\* the ids of the user_otp_account rows WHERE column = val
OtpIdsWhere(view, column, val) ==
    {i \in DOMAIN view["user_otp_account"] :
        IF column = "otp_of_account"
        THEN val.t = "int64" /\ view["user_otp_account"][i].otp_of_account = val.n
        ELSE view["user_otp_account"][i].mobile_number = val}

\* GetObjectByWhereClause("user_otp_account", column, val, transaction): the
\* id of the first row, 0 for a nil map
OtpProfileWhere(view, column, val, fault) ==
    IF fault = "otp" THEN [id |-> 0, err |-> ErrDb]
    ELSE IF OtpIdsWhere(view, column, val) = {}
    THEN [id |-> 0, err |-> "no [" \o column \o "] object found"]
    ELSE [id |-> Min(OtpIdsWhere(view, column, val)), err |-> NoErr]

\* the branch emailOk && email != ""
OtpByEmail(view, email, phoneOk, fault) ==
    IF email.t # "string"
    THEN \* email.(string)
         OtpDone(OtpReturn("nil", <<>>, <<>>, TRUE, view))
    ELSE IF (UserAccountByEmail(view, email.s, fault).err # NoErr
             \/ UserAccountByEmail(view, email.s, fault).id = 0) /\ ~phoneOk
    THEN OtpDone(OtpReturn("nil", <<>>, <<"invalid email">>, FALSE, view))
    ELSE IF UserAccountByEmail(view, email.s, fault).id = 0
    THEN OtpDone(OtpReturn("nil", <<>>, <<"invalid account">>, FALSE, view))
    ELSE OtpFound(UserAccountByEmail(view, email.s, fault).id,
                  OtpProfileWhere(view, "otp_of_account",
                        Int64(UserAccountByEmail(view, email.s, fault).id), fault).id,
                  OtpProfileWhere(view, "otp_of_account",
                        Int64(UserAccountByEmail(view, email.s, fault).id), fault).err)

\* the branch phoneOk && userAccount == nil && mobile != ""
OtpByMobile(view, mobile, fault) ==
    IF OtpProfileWhere(view, "mobile_number", mobile, fault).err # NoErr
    THEN OtpDone(OtpReturn("nil", <<>>, <<"unregistered number">>, FALSE, view))
    ELSE IF fault = "account"
            \/ view["user_otp_account"][OtpProfileWhere(view, "mobile_number", mobile, fault).id]
                    .otp_of_account \notin DOMAIN view["user_account"]
    THEN OtpDone(OtpReturn("nil", <<>>, <<"unregistered number">>, FALSE, view))
    ELSE OtpFound(view["user_otp_account"][OtpProfileWhere(view, "mobile_number", mobile, fault).id]
                        .otp_of_account,
                  OtpProfileWhere(view, "mobile_number", mobile, fault).id, NoErr)

\* the account and the profile DoAction resolves from its input, or its
\* early return
OtpResolve(view, email, mobile, fault) ==
    IF email = Absent /\ mobile = Absent
    THEN OtpDone(OtpReturn("nil", <<>>, <<"email or mobile missing">>, FALSE, view))
    ELSE IF email # Absent /\ email # Str("")
    THEN OtpByEmail(view, email, mobile # Absent, fault)
    ELSE IF mobile # Absent /\ mobile # Str("")
    THEN OtpByMobile(view, mobile, fault)
    ELSE OtpFound(0, 0, NoErr)

\* if mobile == nil { mobile = ""; phoneOk = true }
OtpMobile(mobile) == IF IsNil(mobile) THEN Str("") ELSE mobile

\* the id CreateWithoutFilter gives the new row
NewOtpId(view) ==
    IF DOMAIN view["user_otp_account"] = {} THEN 1 ELSE Max(DOMAIN view["user_otp_account"]) + 1

\* the database after CreateWithoutFilter of the new profile
OtpCreated(view, account, mobile) ==
    [view EXCEPT !["user_otp_account"] =
        @ @@ (NewOtpId(view) :> OtpRow("o-" \o ToString(NewOtpId(view)), account, mobile,
                                      Int64(0), "secret"))]

\* the database after UpdateWithoutFilters of the profile
OtpUpdated(view, profile, mobile) ==
    [view EXCEPT !["user_otp_account"][profile].mobile_number = mobile,
                 !["user_otp_account"][profile].verified = Int64(0)]

\* the code is generated: Decrypt, totp.GenerateCodeCustom and the final
\* return of DoAction, whose error list holds the value of err
OtpGenerated(view, err, fault) ==
    IF fault = "decrypt"
    THEN OtpReturn("nil", <<Notify("message", "Failed", "Failed to generate new OTP code")>>,
                   <<"cipher: message authentication failed">>, FALSE, view)
    ELSE OtpReturn("otp", <<>>, <<err>>, FALSE, view)

\* the update of a verified profile whose number changed, then the code
OtpRenew(view, profile, verified, number, mobile, err, fault) ==
    IF verified = GoInt(1) /\ mobile # number /\ mobile # Str("")
    THEN IF err # NoErr THEN OtpReturn("nil", <<>>, <<err>>, FALSE, view)
         ELSE IF fault = "update" THEN OtpReturn("nil", <<>>, <<ErrDb>>, FALSE, view)
         ELSE OtpReturn("nil", <<>>, <<>>, FALSE, OtpUpdated(view, profile, mobile))
    ELSE OtpGenerated(view, err, fault)

\* DoAction from the session user on: userAccount["id"].(int64), the new
\* profile when there is none, the update, the code
OtpProceed(view, account, profile, err, mobile, fault) ==
    IF account = 0
    THEN \* userAccount["id"].(int64) on the nil map
         OtpReturn("nil", <<>>, <<>>, TRUE, view)
    ELSE IF profile = 0
    THEN IF fault = "create"
         THEN OtpReturn("nil", <<>>, <<"failed to create otp profile">>, FALSE, view)
         ELSE OtpRenew(OtpCreated(view, account, mobile), NewOtpId(view), GoInt(0), mobile,
                       mobile, err, fault)
    ELSE OtpRenew(view, profile, view["user_otp_account"][profile].verified,
                  view["user_otp_account"][profile].mobile_number, mobile, err, fault)

\* otpGenerateActionPerformer.DoAction(request, inFieldMap, transaction) for
\* inFieldMap = {email, mobile}
OtpDoAction(view, email, mobile, fault) ==
    IF OtpResolve(view, email, mobile, fault).done
    THEN OtpResolve(view, email, mobile, fault).out
    ELSE OtpProceed(view, OtpResolve(view, email, mobile, fault).account,
                    OtpResolve(view, email, mobile, fault).profile,
                    OtpResolve(view, email, mobile, fault).err, OtpMobile(mobile), fault)

-----------------------------------------------------------------------------
(* SpecOtp: otp.generate actions, one after the other, on a database in which
   the account a@x has a profile with the number 555 *)

\* the value of verified in the profile of a@x, as the driver returns it
OtpVerified == {Int64(0), Int64(1), GoInt(1)}

OtpDb(verified) ==
    [t \in DOMAIN SeedDb \cup {"user_otp_account"} |->
        IF t = "user_otp_account"
        THEN (1 :> OtpRow("o-1", 1, Str("555"), verified, "secret"))
        ELSE SeedDb[t]]

\* the most rows user_otp_account holds
MaxOtpRows == 2

OtpEmails == {Absent, Nil, Int64(1), Str(""), Str("a@x"), Str("b@x"), Str("zz@x")}

OtpMobiles == {Absent, Nil, Str(""), Str("555"), Str("999")}

CallOtpDoAction(email, mobile, fault) ==
    /\ last = NoCall
    /\ last' = [op |-> "DoAction", fn |-> "otp.generate", email |-> email, mobile |-> mobile,
                fault |-> fault, out |-> OtpDoAction(db, email, mobile, fault), before |-> db]
    /\ Cardinality(DOMAIN OtpDoAction(db, email, mobile, fault).db["user_otp_account"])
            <= MaxOtpRows
    /\ db' = OtpDoAction(db, email, mobile, fault).db
    /\ UNCHANGED <<cache, OlricCache, adminVars, gate>>

InitOtp ==
    /\ \E verified \in OtpVerified : db = OtpDb(verified)
    /\ cache = NoCache
    /\ OlricCache = FALSE
    /\ last = NoCall
    /\ pc = [p \in Callers |-> "idle"]
    /\ userId = [p \in Callers |-> 0]
    /\ txlog = [p \in Callers |-> <<>>]
    /\ result = [p \in Callers |-> "none"]
    /\ hist = NoHist
    /\ frame = [p \in Callers |-> NoFrame]
    /\ gate = NoGate

NextOtp ==
    \/ Discard
    \/ \E email \in OtpEmails, mobile \in OtpMobiles, fault \in OtpFaults :
            CallOtpDoAction(email, mobile, fault)

SpecOtp == InitOtp /\ [][NextOtp]_vars

-----------------------------------------------------------------------------
(* Claims about the id <-> reference lookups (checked under SpecId) *)

RowPresent(t, i) == i \in DOMAIN db[t]

IsIdToRef(op) == op \in {"GetIdToReferenceId", "GetIdToReferenceIdWithTransaction"}

IsRefToId(op) == op \in {"GetReferenceIdToId", "GetReferenceIdToIdWithTransaction"}

\* C8: Id round-trip.  In every state the lookups can reach (cache cold or
\* warm), for every row present with id i and reference r,
\* GetReferenceIdToId(type, GetIdToReferenceId(type, i)) = i and
\* GetIdToReferenceId(type, GetReferenceIdToId(type, r)) = r, both without error.
C8_IdRoundTrip ==
    \A t \in LookupTypes : \A i \in DOMAIN db[t] :
        LET a == GetIdToReferenceId(OlricCache, cache, db, t, i)
            b == GetReferenceIdToId(OlricCache, a.cache, db, t, a.val)
            c == GetReferenceIdToId(OlricCache, cache, db, t, db[t][i].reference_id)
            d == GetIdToReferenceId(OlricCache, c.cache, db, t, c.val)
        IN  /\ a.err = NoErr /\ b.err = NoErr /\ b.val = i
            /\ c.err = NoErr /\ d.err = NoErr /\ d.val = db[t][i].reference_id

\* C8 witness: a lookup of a present row was just answered from the cache,
\* and both of the row's keys are warm
C8_Witness ==
    /\ last.op = "GetReferenceIdToId" /\ last.hit
    /\ last.ival \in DOMAIN db[last.type]
    /\ CacheHit(cache, ItrKey(last.type, last.ival))
    /\ CacheHit(cache, RitiKey(last.type, last.ref))

\* C9: Cache coherence on immutable facts.  For every (type, id), every
\* idToRef call returns the same reference: the one the row carries (the
\* empty string when there is no row), whether it is answered from the
\* cache or from the database, by the plain or the WithTransaction variant.
C9_SameReference ==
    /\ \A t \in LookupTypes, i \in LookupIds, p \in Callers :
        /\ GetIdToReferenceId(OlricCache, cache, db, t, i).val = ScanReferenceId(db, t, i).val
        /\ GetIdToReferenceIdWithTransaction(OlricCache, cache, TxView(p), t, i).val
                = ScanReferenceId(db, t, i).val
    /\ IsIdToRef(last.op) => last.sval = ScanReferenceId(db, last.type, last.id).val

\* C9 witness: the WithTransaction variant answered a present row from an
\* entry the plain variant had stored
C9_Witness ==
    /\ last.op = "GetIdToReferenceIdWithTransaction" /\ last.hit
    /\ RowPresent(last.type, last.id)
    /\ CacheHit(cache, ItrKey(last.type, last.id))
    /\ cache[ItrKey(last.type, last.id)].ttl = 60

\* C10: NotFound on absent rows.  Every idToRef call for a (type, id) with no
\* row and every refToId call for a (type, ref) with no row returns a
\* non-nil error, on the first call and on every repeated call.
C10_NotFoundOnAbsent ==
    /\ (IsIdToRef(last.op) /\ ~RowPresent(last.type, last.id)) => last.err # NoErr
    /\ (IsRefToId(last.op) /\ IdsByReference(db, last.type, last.ref) = {}) => last.err # NoErr

-----------------------------------------------------------------------------
(* Claims about IsUserActionAllowed (checked under SpecPerm) *)

IsAllowedOp(op) == op \in {"IsUserActionAllowed", "IsUserActionAllowedWithTransaction"}

\* p grants Execute to the caller: the owner with the user Execute bit, a
\* shared group whose entry has the group Execute bit, or the guest Execute bit
ExecuteGranted(p, user, ugroups) ==
    \/ user # "" /\ p.UserId = user /\ (p.Permission \div 2^12) % 2 = 1
    \/ \E k \in DOMAIN p.UserGroupId :
            /\ p.UserGroupId[k].GroupReferenceId \in ugroups
            /\ (p.UserGroupId[k].Permission \div 2^19) % 2 = 1
    \/ (p.Permission \div 2^5) % 2 = 1

\* the permission the database holds for row i of table t: its owner's
\* reference, its group entries and its permission column
StoredPermission(t, i) ==
    PermissionInstance(
        IF db[t][i].user_account_id \in DOMAIN db["user_account"]
        THEN db["user_account"][db[t][i].user_account_id].reference_id ELSE "",
        GroupsQuery(db, t, i, db[t][i].reference_id),
        db[t][i].permission)

\* the world row of a type and the action row of an action name
WorldRow(t) == Min({i \in DOMAIN db["world"] : db["world"][i].name = t})

ActionRow(a) == Min({i \in DOMAIN db["action"] : db["action"][i].name = a})

\* C5: IsUserActionAllowed and IsUserActionAllowedWithTransaction return true
\* exactly when the PermissionInstance of the type's world row and the one of
\* the action row both grant Execute to the caller; a permission that was not
\* answered from the cache is the one the database holds for that row.
C5_BothGrantExecute ==
    IsAllowedOp(last.op) =>
        /\ last.val = (/\ ExecuteGranted(last.permission, last.user, last.groups)
                       /\ ExecuteGranted(last.actionPermission, last.user, last.groups))
        /\ ~last.hitType => last.permission = StoredPermission("world", WorldRow(last.type))
        /\ ~last.hitAction =>
                last.actionPermission = StoredPermission("action", ActionRow(last.action))

\* C5 witness: the transaction variant has returned false for a caller whom
\* the type's permission grants Execute and the action's permission does not.
C5_Witness ==
    /\ last.op = "IsUserActionAllowedWithTransaction"
    /\ ~last.val
    /\ ExecuteGranted(last.permission, last.user, last.groups)
    /\ ~ExecuteGranted(last.actionPermission, last.user, last.groups)

\* the caller of the last call owns the action row and is in none of its groups
OwnerCalled ==
    /\ IsAllowedOp(last.op)
    /\ last.user # ""
    /\ last.user = StoredPermission("action", ActionRow(last.action)).UserId
    /\ last.groups = {}

\* C6 (as stated): once UserExecute is removed from the action's permission in
\* the database, the next call by the owner returns false.  (A permission edit
\* replaces `last`, so a call recorded in `last` ran after every edit.)
C6_RevocationOnNextCall ==
    /\ OwnerCalled
    /\ ~HasBit(db["action"][ActionRow(last.action)].permission, UserExecute)
    => ~last.val

\* C6 (amended): a call by the owner that does not find the action's
\* permission in the cache returns false when the action's permission in the
\* database has no UserExecute, and a call that finds neither permission in
\* the cache returns true when both rows grant Execute to the owner.
C6_RevocationAfterExpiry ==
    OwnerCalled /\ ~last.hitAction =>
        /\ ~HasBit(db["action"][ActionRow(last.action)].permission, UserExecute) => ~last.val
        /\ (/\ ~last.hitType
            /\ ExecuteGranted(StoredPermission("world", WorldRow(last.type)), last.user, last.groups)
            /\ HasBit(db["action"][ActionRow(last.action)].permission, UserExecute))
           => last.val

\* C6 witness: UserExecute has been removed from the action (the seed has it),
\* the type still grants Execute, and a call by the owner that missed the
\* cache for the action has returned false.
C6_Witness ==
    /\ OwnerCalled
    /\ last.op = "IsUserActionAllowed"
    /\ ~last.hitAction
    /\ ~HasBit(db["action"][ActionRow(last.action)].permission, UserExecute)
    /\ ExecuteGranted(last.permission, last.user, last.groups)
    /\ ~last.val

-----------------------------------------------------------------------------
(* Claims about the AccessGate predicate (checked under SpecGate) *)

\* bit number n of mask m is set
BitSet(m, n) == (m \div 2^n) % 2 = 1

-----------------------------------------------------------------------------
(* Claims about AdminBootstrap (checked under SpecAdmin) *)

\* the callers whose BecomeAdmin call has returned true
ReturnedTrue == {p \in Callers : result[p] = "true"}

\* the committed membership rows of the administrators group
AdminRows ==
    {i \in DOMAIN db[USER_ACCOUNT_LINK_TABLE] :
        \E g \in DOMAIN db["usergroup"] :
            /\ db["usergroup"][g].name = "administrators"
            /\ db[USER_ACCOUNT_LINK_TABLE][i].usergroup_id = g}

\* C1 (as stated): once a BecomeAdmin call has returned true, every
\* CanBecomeAdmin() call that starts afterwards returns false and every
\* BecomeAdmin call that starts afterwards returns false.
C1_AdminOnce ==
    /\ \A p \in Callers : hist.at[p].afterTrue => result[p] # "true"
    /\ last.op = "CanBecomeAdmin" /\ last.afterTrue => ~last.val

\* C2 (as stated): of two BecomeAdmin calls that run concurrently (one starts
\* while the other is inside BecomeAdmin), at most one returns true, and at
\* most one membership row of the administrators group is inserted.
C2_AtMostOne ==
    (\E p \in Callers : hist.at[p].during # {}) =>
        /\ Cardinality(ReturnedTrue) <= 1
        /\ Cardinality(AdminRows) <= 1

\* C3 (as stated): once a BecomeAdmin call has completed the ownership UPDATE
\* over every table, no BecomeAdmin call that starts afterwards returns true.
C3_Step1Latch ==
    \A p \in Callers : hist.at[p].afterStep1 => result[p] # "true"

\* C3 (amended): once a membership row of the administrators group has been
\* committed, no BecomeAdmin call that starts afterwards returns true,
\* whether or not the ownership UPDATE of an earlier call had completed.
C3_MembershipLatch ==
    \A p \in Callers : hist.at[p].afterMember => result[p] # "true"

\* C3 witness: a call started after another call's ownership UPDATEs and
\* after the commit of a membership row of the administrators group, and it
\* has returned false.
C3_Witness ==
    \E p \in Callers :
        /\ hist.at[p].afterMember
        /\ hist.at[p].afterStep1
        /\ pc[p] = "returned"
        /\ result[p] = "false"

\* C4: a BecomeAdmin call made when an administrator exists (the committed
\* administrators group has a member, CanBecomeAdmin() is false) returns
\* false at once and executes no statement on its transaction.
C4_NoOpWhenAdminExists ==
    \A p \in Callers :
        pc[p] # "idle" /\ hist.at[p].admin =>
            /\ pc[p] \in {"returned", "closed"}
            /\ result[p] = "false"
            /\ txlog[p] = <<>>
            /\ TxView(p) = db

\* C4 witness: a caller's BecomeAdmin has returned false on an empty
\* transaction while the administrators group has a committed member.
C4_Witness ==
    \E p \in Callers :
        /\ hist.at[p].admin
        /\ AdminRows # {}
        /\ pc[p] = "returned"
        /\ result[p] = "false"
        /\ txlog[p] = <<>>

\* C24: Ownership after a successful bootstrap.  When BecomeAdmin(userId, tx)
\* has returned true, every row of every table with a user_account_id column
\* other than the user-usergroup link table has, in tx, user_account_id =
\* userId and permission = DEFAULT_PERMISSION, also when the UPDATE of one of
\* those tables failed.
C24_OwnsEverything ==
    \A p \in Callers :
        (pc[p] = "returned" /\ result[p] = "true") =>
            \A t \in OwnedTables : \A i \in DOMAIN TxView(p)[t] :
                /\ TxView(p)[t][i].user_account_id = userId[p]
                /\ TxView(p)[t][i].permission = DEFAULT_PERMISSION

\* C25: Action permissions after bootstrap.  When BecomeAdmin has returned
\* true, every action row has, in its transaction, permission = UserRead |
\* UserExecute | GroupCRUD | GroupExecute | GroupRefer, and the signin action
\* has that set with GuestPeek | GuestExecute added.
C25_ActionPermissions ==
    \A p \in Callers :
        (pc[p] = "returned" /\ result[p] = "true") =>
            \A i \in DOMAIN TxView(p)["action"] :
                TxView(p)["action"][i].permission =
                    IF TxView(p)["action"][i].name = "signin"
                    THEN GuestPeek + GuestExecute + UserRead + UserExecute + GroupCRUD
                         + GroupExecute + GroupRefer
                    ELSE UserRead + UserExecute + GroupCRUD + GroupExecute + GroupRefer

-----------------------------------------------------------------------------
(* Claims about the store being unavailable (checked under SpecDegraded) *)

\* C11 (as stated): with a store whose Get always misses and whose PutIfEx
\* always fails, every lookup returns the same value and the same error as
\* with the cache disabled.
C11_SameAsDisabled ==
    last.op = "Degraded" => last.degraded = last.disabled

-----------------------------------------------------------------------------
(* Claims about concurrent lookups of one key (checked under SpecRace) *)

\* C12 (as stated): a lookup of a present row that missed the cache and read
\* the database returns the row's reference id with a nil error, also when
\* another thread stored the key between its Get and its PutIfEx.
C12_NoCacheErrorSurfaced ==
    \A p \in Callers :
        pc[p] = "done" /\ RowPresent(frame[p].type, frame[p].id) =>
            /\ frame[p].str = db[frame[p].type][frame[p].id].reference_id
            /\ frame[p].err = NoErr

-----------------------------------------------------------------------------
(* Claims about cached values of another type (checked under SpecMalformed) *)

\* C13 (as stated): a lookup whose key holds a value of the wrong type treats
\* it as a miss: it returns what the database read returns, without a panic
\* and without the malformed value.
C13_WrongTypeIsMiss ==
    last.op = "Lookup" /\ last.malformed => last.out = last.fresh

-----------------------------------------------------------------------------
(* Claims about mutation of returned values (checked under SpecAlias) *)

-----------------------------------------------------------------------------
(* Claims about lookups on a transaction handle (checked under SpecTx) *)

\* C15 (as stated): a WithTransaction lookup made after a statement was run
\* on the same handle returns what the handle reads, also when the cache
\* still holds an older value under the key.
C15_ReadYourWrites ==
    last.op = "TxLookup" /\ last.afterWrite => last.out = last.written

\* C16 (as stated): a lookup returns a value other than the current database
\* value only while an entry put before a database change is still cached;
\* in particular, while the database has not changed at all, a lookup made
\* with no statement pending on the handle returns the database value.
C16_StaleOnlyAfterChange ==
    last.op = "TxLookup" /\ ~last.afterWrite /\ db = SeedDb =>
        last.out = last.written

-----------------------------------------------------------------------------
(* Claims about row permissions (checked under SpecRow) *)

IsRowPermissionOp == last.op \in {"GetRowPermission", "GetRowPermissionWithTransaction"}

GuestOnlyType(rowType) == rowType = "none" \/ BeginsWith(rowType, "file.")

\* C17 (as stated): for every row map whose __type is "none" or begins with
\* "file.", both functions return a PermissionInstance whose group list is
\* exactly the one entry with empty reference ids and bits GuestRead,
\* whatever the other fields of the row are.
C17_GuestOnlySynthesis ==
    IsRowPermissionOp /\ GuestOnlyType(last.row.type) =>
        /\ last.err = NoErr
        /\ last.val.UserGroupId = <<GroupPermission("", "", "", GuestRead)>>

FileImageRow == RowMap("file.image", Str("r"), Absent, Absent, Int64(0))

GateCallers == {"", "u-1", "u-2"}

GateCallerGroupSets == {{}, {""}, {"g-1"}, {"g-1", "g-2"}}

\* C18 (as stated): the PermissionInstance returned for the row
\* {__type: "file.image", reference_id: "r", permission: 0} allows Read for
\* every caller and denies Update for every caller.
C18_GuestFileReadable ==
    IsRowPermissionOp /\ last.row = FileImageRow /\ last.err = NoErr =>
        \A user \in GateCallers, ugroups \in GateCallerGroupSets :
            /\ CheckBit(last.val, user, ugroups, "Read")
            /\ ~CheckBit(last.val, user, ugroups, "Update")

-----------------------------------------------------------------------------
(* Claims about included relations (checked under SpecRel) *)

\* C19: for a parent row and an included relation, at most 50 related
\* objects are added to the includes and at most 50 reference ids are put in
\* the parent's relation field, however many related rows exist.
C19_RelationCap ==
    last.op = "ResultToArrayOfMap" =>
        /\ Len(last.field) <= RelationLimit
        /\ last.localInclude <= RelationLimit

C19_Witness ==
    /\ last.op = "ResultToArrayOfMap"
    /\ Len(last.created) > RelationLimit
    /\ Len(last.field) = RelationLimit
    /\ last.localInclude = RelationLimit

\* C20 (as stated): the reference ids in the parent's relation field are the
\* most recently linked objects, ordered by the link rows' created_at,
\* newest first.
C20_NewestFirst ==
    last.op = "ResultToArrayOfMap" =>
        /\ \A k \in 1..(Len(last.includes1) - 1) :
                last.created[last.includes1[k]] >= last.created[last.includes1[k + 1]]
        /\ \A i \in Range(last.includes1), j \in DOMAIN last.created \ Range(last.includes1) :
                last.created[i] >= last.created[j]

-----------------------------------------------------------------------------
(* Claims about loaders (checked under SpecLoad) *)

\* the database steps of the queries that load included objects
IncludeFaults ==
    {Fault(site, step) : site \in {"fkobject", "subject", "belongs_to", "has_many", "related"},
                         step \in Steps}

\* C21: A relation-include failure never fails the parent load.  Whenever
\* GetRowsByWhereClause returns from a call in which a database step of an
\* include query (the id query of a relation from either side, the load of
\* the related rows, or the load of the object of a foreign key) was the one
\* to fail, it returns a nil error and the parent rows it returns when
\* nothing fails.
C21_IncludeFailureKeepsParent ==
    (last.op = "Load" /\ last.fn = "GetRowsByWhereClause" /\ last.fault \in IncludeFaults)
        => /\ last.out.err = NoErr
           /\ Len(last.out.rows)
                = Len(GetRowsByWhereClause(db, last.recv, last.type, last.ref, last.include,
                                           last.order, NoFault).rows)

\* C22: Single-row load is the first element of the multi-row load.  When
\* GetSingleRowByReferenceId(type, ref, include) returns, with rows being what
\* GetRowsByWhereClause(type, include, {reference_id: ref}) returns on the
\* same database: if rows holds a row, the call returns the first row and the
\* first includes list of rows and a nil error; if rows is empty without an
\* error, it returns a nil row, nil includes and the not-found error naming
\* type and ref; if rows carries an error, it returns that error.  The
\* not-found error is returned only when no row of type has reference_id ref.
C22_SingleRowIsFirst ==
    (last.op = "Load" /\ last.fn = "GetSingleRowByReferenceId")
        => /\ (last.rows.err = NoErr /\ Len(last.rows.rows) >= 1)
                => /\ last.out.err = NoErr
                   /\ last.out.rows = <<last.rows.rows[1]>>
                   /\ last.out.includes = last.rows.includes[1]
           /\ (last.rows.err = NoErr /\ Len(last.rows.rows) = 0)
                => /\ last.out.err = ErrNoSuchEntity("897", last.type, last.ref)
                   /\ last.out.rows = <<>>
                   /\ last.out.includes = <<>>
           /\ last.rows.err # NoErr => last.out.err = last.rows.err
           /\ last.out.err = ErrNoSuchEntity("897", last.type, last.ref)
                => IdsByReference(db, last.type, last.ref) = {}
           /\ (IdsByReference(db, last.type, last.ref) = {} /\ last.fault = NoFault)
                => last.out.err = ErrNoSuchEntity("897", last.type, last.ref)

\* C22 witness: a single-row load returned a row together with an included
\* object.
C22_Witness ==
    /\ last.op = "Load"
    /\ last.fn = "GetSingleRowByReferenceId"
    /\ last.out.err = NoErr
    /\ Len(last.out.rows) = 1
    /\ Len(last.out.includes) >= 1

\* the loaders that return row maps
RowLoaders ==
    {"GetRowsByWhereClause", "GetSingleRowByReferenceId", "GetSingleRowById",
     "GetObjectByWhereClause", "GetIdToObject", "GetAllObjects", "GetAllObjectsWithWhere",
     "GetReferenceIdToObject"}

\* C23: Row type tag.  Every row map a loader returns for a query on type T
\* carries __type = T, whichever resource the loader was called on.
C23_RowTypeTag ==
    (last.op = "Load" /\ last.fn \in RowLoaders)
        => \A k \in 1..Len(last.out.rows) : last.out.rows[k]["__type"] = last.type

\* the loaders that defer a Close right after the call that opens the handle
HandleLoaders == RowLoaders \cup {"GetUserMembersByGroupName", "GetReferenceIdListToIdList"}

\* C26: Handles are closed on all paths.  When a loader or resolver returns,
\* on success and on every error path, the prepared statement and the result
\* set it opened are closed, and Close was called on no handle that was not
\* opened.
C26_HandlesClosed ==
    (last.op = "Load" /\ last.fn \in HandleLoaders)
        => /\ last.out.stmt \in {"nil", "closed"}
           /\ last.out.res \in {"nil", "closed"}

\* the loaders C27 names
DbErrorLoaders ==
    {"GetSingleRowById", "GetObjectByWhereClause", "GetIdToObject", "GetAllObjects",
     "GetReferenceIdToObject"}

\* C27: A failed SQL prepare or execute is returned as an error.  When the
\* Preparex or the Queryx of GetSingleRowById, GetObjectByWhereClause,
\* GetIdToObject, GetAllObjects or GetReferenceIdToObject fails, the call
\* returns that error; and when the Preparex or the Queryx of an include
\* query of the object side of a relation fails, the load does not go on to
\* use the missing statement or result set.
C27_DbErrorReturned ==
    last.op = "Load" =>
        /\ (last.fn \in DbErrorLoaders
            /\ last.fault \in {Fault("main", "prepare"), Fault("main", "execute")})
                => last.out.err = ErrDb
        /\ (last.fn = "GetRowsByWhereClause"
            /\ last.fault \in {Fault(site, step) : site \in {"belongs_to", "has_many"},
                                                   step \in {"prepare", "execute"}})
                => last.out.err # ErrNilPointer

-----------------------------------------------------------------------------
(* Claims about the cache handle (checked under SpecHandle) *)

\* C28: The cache handle is a process-wide singleton.  Under any
\* interleaving of concurrent first permission lookups the handle is
\* initialised once, and once it is non-nil it is never replaced.
C28_SingletonHandle ==
    /\ hist.assigned <= 1
    /\ ~hist.replaced

-----------------------------------------------------------------------------
(* Claims about cache keys (checked under SpecId) *)

\* the namespace table: the prefix of the key shape and the TTL in seconds
Namespaces ==
    {<<"itr-", 60>>, <<"riti-", 300>>, <<"ito-", 60>>, <<"rio-", 5>>,
     <<"object-permission-", 600>>, <<"row-permission-", 60>>, <<"object-groups-", 30>>,
     <<"action-", 60>>}

\* C29: Key shape and TTL.  Every entry the lookups write, in the plain and
\* in the WithTransaction variant, has a key of a shape of the namespace
\* table and the TTL the table gives for that shape.
C29_KeyShapeAndTTL ==
    \A k \in DOMAIN cache :
        \E n \in Namespaces : BeginsWith(k, n[1]) /\ cache[k].ttl = n[2]

-----------------------------------------------------------------------------
(* Claims about object permission lookups (checked under SpecObject) *)

\* C30: Permission lookup of a missing object.  Each of
\* GetObjectPermissionByReferenceId, GetObjectPermissionById,
\* GetObjectPermissionByWhereClause and their WithTransaction variants,
\* called for a key that matches no row, returns without crashing the
\* PermissionInstance with no owner, no groups and permission 0, which grants
\* no capability to any caller.
C30_MissingObjectDeniesAll ==
    (last.op = "ObjectPermission" /\ last.missing)
        => /\ last.err = NoErr
           /\ last.val = EmptyPermission
           /\ \A user \in {"", "u-1", "u-2"}, ugroups \in SUBSET {"", "g-1", "g-2"},
                 cap \in Caps : ~CheckBit(last.val, user, ugroups, cap)


-----------------------------------------------------------------------------
(* Claims about usergroup rows (checked under SpecGroupRow) *)

\* C31 (as stated): for every row map whose __type is "usergroup", both
\* functions return a group list of exactly one entry, whose group
\* reference id is the row's own reference id and whose bits are the
\* usergroup model's default permission, whatever relations usergroup
\* declares, and set no owner.
C31_UsergroupIsOwnGroup ==
    IsRowPermissionOp /\ last.row.type = "usergroup" =>
        /\ last.err = NoErr
        /\ Len(last.val.UserGroupId) = 1
        /\ last.val.UserGroupId[1].GroupReferenceId = Sprint(RefIdOf(last.row))
        /\ last.val.UserGroupId[1].Permission = UsergroupDefaultPermission
        /\ last.val.UserId = ""


-----------------------------------------------------------------------------
(* Claims about the bits of a row permission (checked under SpecBits) *)

\* the whole-number permission values of the row maps, by the value carried
CarriedBits ==
    {<<Int64(5), 5>>, <<GoInt(5), 5>>, <<Float64(10), 5>>, <<Str("5"), 5>>, <<Str("12"), 12>>}

\* the step is a call of one of the two functions, with a new result
RowPermissionStep == IsRowPermissionOp' /\ last' # last

\* C32 (as stated): when the row map carries a permission value v given as an
\* integer, a float or a numeric string, the returned PermissionInstance has
\* bits v and the call makes no permission lookup (it leaves no object
\* permission entry in the cache); when the row map carries no permission
\* value, the returned bits are those the ByReferenceId lookup returns for
\* the row's type and reference id.
C32_RowBits ==
    [][RowPermissionStep =>
        /\ \A cb \in CarriedBits :
              last'.row.permission = cb[1] =>
                /\ last'.err = NoErr
                /\ last'.val.Permission = cb[2]
                /\ DOMAIN cache' \ DOMAIN cache \subseteq
                        {k \in DOMAIN cache' : ~BeginsWith(k, "opject-permission-")}
        /\ last'.row.permission = Absent =>
                /\ last'.err = NoErr
                /\ last'.val.Permission =
                        ObjectPermission(last'.op = "GetRowPermissionWithTransaction",
                                         OlricCache, cache, db, last'.row.type,
                                         Sprint(RefIdOf(last'.row))).val.Permission]_vars


-----------------------------------------------------------------------------
(* Claims about include-all (checked under SpecLoad) *)

\* the has_many relations of tableInfo.Relations the type takes part in
HasManyRelations(typeName) ==
    {k \in DOMAIN Relations :
        /\ Relations[k].Relation \in {"has_many", "has_many_and_belongs_to_many"}
        /\ typeName \in {Relations[k].Subject, Relations[k].Object}}

\* the include list that names each of them
HasManyNames(typeName) ==
    {RelationField(typeName, Relations[k]) : k \in HasManyRelations(typeName)}

\* what GetRowsByWhereClause returns for the arguments of the last call when
\* the include list names every has_many relation of the type
LoadedByName ==
    GetRowsByWhereClause(db, last.recv, last.type, last.ref, HasManyNames(last.type),
                         last.order, last.fault)

\* C33 (as stated): when GetRowsByWhereClause is called with include = {"*"},
\* every has_many relation declared on the type is followed for every
\* returned row: the row's reference-id list is set and the related objects
\* are in the row's includes, exactly as when each relation name is listed
\* in include.
C33_IncludeAll ==
    (last.op = "Load" /\ last.fn = "GetRowsByWhereClause" /\ last.recv = last.type
        /\ last.include = {"*"} /\ last.fault = NoFault)
        => /\ last.out.err = NoErr
           /\ Len(last.out.rows) = Len(LoadedByName.rows)
           /\ \A k \in 1..Len(last.out.rows) :
                /\ \A f \in HasManyNames(last.type) :
                      f \in DOMAIN LoadedByName.rows[k] =>
                        /\ f \in DOMAIN last.out.rows[k]
                        /\ last.out.rows[k][f] = LoadedByName.rows[k][f]
                /\ \A j \in 1..Len(LoadedByName.includes[k]) :
                      \E i \in 1..Len(last.out.includes[k]) :
                        last.out.includes[k][i] = LoadedByName.includes[k][j]


-----------------------------------------------------------------------------
(* Claims about rows and their includes (checked under SpecAlign) *)

\* the object was loaded for the row: it is the object of the row's foreign
\* key, or one of the related rows whose reference ids the row lists
LoadedFor(obj, row) ==
    \/ obj["__type"] = USER_ACCOUNT_TABLE_NAME /\ obj.reference_id = row.user_account_id
    \/ \E f \in {"usergroup_id", "world_id", "action_id"} \cap DOMAIN row :
            \E i \in DOMAIN row[f] : row[f][i] = obj.reference_id

-----------------------------------------------------------------------------
(* Claims about the keys of cached permissions (checked under SpecKeys) *)

KeyTriples == KeyTypes \X KeyColumns \X KeyValues

\* what the lookup of the last call finds in the database
Uncached ==
    GetObjectPermissionByWhereClause(FALSE, NoCache, db, last.type, last.col, last.value).val

\* C35 (as stated): two permission lookups for different (type, column,
\* value) triples never use the same cache key, and a PermissionInstance
\* computed for one triple is never returned for another: each lookup
\* returns the permission of the row its own triple selects.
C35_KeysInjective ==
    /\ \A a, b \in KeyTriples :
            a # b => /\ PermissionKey(a[1], a[2], a[3]) # PermissionKey(b[1], b[2], b[3])
                     /\ PermissionKeyWithTransaction(a[1], a[2], a[3])
                            # PermissionKeyWithTransaction(b[1], b[2], b[3])
    /\ last.op = "Where" /\ last.err = NoErr => last.val = Uncached


-----------------------------------------------------------------------------
(* Claims about uncommitted values (checked under SpecEscape) *)

\* C36 (as stated): a value that a WithTransaction lookup read from
\* uncommitted writes of its own transaction is never returned to a lookup
\* running outside that transaction: while nothing was committed, every
\* lookup outside returns what the committed database holds, in particular
\* after the transaction was rolled back.
C36_NoUncommittedEscape ==
    last.op = "Outside" => last.out = last.committed


-----------------------------------------------------------------------------
(* Claims about actions of the same name (checked under SpecOnType) *)

\* the action row identified by (onType = t, name = a)
ActionRowOn(t, a) ==
    Min({i \in DOMAIN db["action"] :
            /\ db["action"][i].name = a
            /\ db["action"][i].world_id = WorldRow(t)})

\* C37 (as stated): the result of IsUserActionAllowed(user, groups, T, A)
\* depends only on the permission of the world row of T and of the action
\* row identified by (onType = T, name = A): a call answered from the
\* database returns true exactly when those two rows grant Execute to the
\* caller, whatever the permission of an action named A on another type is.
C37_OwnActionOnly ==
    IsAllowedOp(last.op) /\ ~last.hitType /\ ~last.hitAction =>
        last.val = (/\ ExecuteGranted(StoredPermission("world", WorldRow(last.type)),
                                      last.user, last.groups)
                    /\ ExecuteGranted(StoredPermission("action",
                                                       ActionRowOn(last.type, last.action)),
                                      last.user, last.groups))


-----------------------------------------------------------------------------
(* Claims about the binary form of reference ids (checked under SpecRef) *)

\* C38: Reference id binary round-trip.  UnmarshalBinary(MarshalBinary(d))
\* yields an id equal to d byte for byte; UnmarshalBinary with data whose
\* length is not 16 returns an error and leaves the receiver unchanged; Scan
\* with a value that is not a byte slice returns an error and leaves the
\* receiver unchanged; the null reference is the all-zero 16 bytes.
C38_BinaryRoundTrip ==
    /\ (last.op = "Ref" /\ last.fn = "RoundTrip") =>
            /\ last.err = NoErr
            /\ Len(last.dr) = 16
            /\ \A i \in 1..16 : last.dr[i] = last.src[i]
    /\ (last.op = "Ref" /\ last.fn = "UnmarshalBinary" /\ Len(last.arg.b) # 16) =>
            /\ last.err # NoErr
            /\ last.dr = last.prev
    /\ (last.op = "Ref" /\ last.fn = "Scan" /\ last.arg.t # "[]uint8") =>
            /\ last.err # NoErr
            /\ last.dr = last.prev
    /\ Len(NullReferenceId) = 16
    /\ \A i \in 1..16 : NullReferenceId[i] = 0

\* data one byte short was handed to UnmarshalBinary on a receiver that is
\* not the null reference
C38_Witness ==
    /\ last.op = "Ref" /\ last.fn = "UnmarshalBinary"
    /\ Len(last.arg.b) = 15
    /\ last.prev # NullReferenceId
    /\ last.arg.b # SubSeq(last.prev, 1, 15)


-----------------------------------------------------------------------------
(* Claims about password.reset.verify (checked under SpecVerify) *)

\* a user_account row with the given email exists
AccountExists(email) ==
    email.t = "string" /\ \E i \in DOMAIN db["user_account"] : db["user_account"][i].name = email.s

\* the token base64-decodes to a JWT that validates under the secret
TokenValidates(token, secret) ==
    token.t = "string" /\ token.s = "b64:HS256." \o secret \o ".fresh"

\* C39 (as stated): DoAction returns, for every input, a nil responder, a nil
\* error list and exactly one client.notify response; the response is the
\* success notification only if a user_account row with the given email
\* exists and the token base64-decodes to a JWT that validates under the
\* configured secret, and a failure notification in every other case;
\* DoAction writes nothing to the database.
C39_VerifyOneNotification ==
    (last.op = "DoAction" /\ last.fn = "password.reset.verify") =>
        /\ ~last.out.panic
        /\ last.out.responder = "nil"
        /\ last.out.errs = "nil"
        /\ Len(last.out.responses) = 1
        /\ last.out.responses[1].ResponseType = "client.notify"
        /\ last.out.responses[1].type = "success" =>
                AccountExists(last.email) /\ TokenValidates(last.token, last.secret)
        /\ last.out.responses[1].type # "success" =>
                last.out.responses[1].type \in {"error", "failed"}
        /\ db = last.before


-----------------------------------------------------------------------------
(* Claims about otp.generate (checked under SpecOtp) *)

\* an account with the email exists in the database before the call
OtpAccountOf(email) ==
    \E i \in DOMAIN last.before["user_account"] : last.before["user_account"][i].name = email.s

\* a profile with the number exists in the database before the call
OtpRegistered(mobile) ==
    \E i \in DOMAIN last.before["user_otp_account"] :
        last.before["user_otp_account"][i].mobile_number = mobile

\* no account can be resolved from the input: email and mobile both missing,
\* email empty with no mobile, email unknown, or mobile unregistered
OtpUnresolvable ==
    \/ last.email = Absent /\ last.mobile = Absent
    \/ last.email = Str("") /\ last.mobile = Absent
    \/ last.email.t = "string" /\ last.email.s # "" /\ ~OtpAccountOf(last.email)
    \/ /\ last.email \in {Absent, Str("")}
       /\ last.mobile.t = "string" /\ last.mobile.s # ""
       /\ ~OtpRegistered(last.mobile)

\* C40 (as stated): DoAction of otp.generate returns a non-empty error list,
\* and creates or updates no user_otp_account row, whenever no user account
\* can be resolved from its input (email and mobile both missing, email empty
\* with no mobile, email unknown, or mobile unregistered); it never proceeds
\* to read fields of an unresolved account.
C40_UnresolvedIsError ==
    (last.op = "DoAction" /\ last.fn = "otp.generate" /\ OtpUnresolvable) =>
        /\ ~last.out.panic
        /\ Len(last.out.errs) > 0
        /\ last.out.errs[1] # NoErr
        /\ db["user_otp_account"] = last.before["user_otp_account"]

=============================================================================
